---- MODULE Spec2Model ----
(***************************************************************************)
(* A model of the epub crate's block reader (src/src/io.rs) and of the     *)
(* container expander built on it (src/src/container.rs).                  *)
(*                                                                         *)
(* Bytes are naturals in 0..255, byte strings are sequences of bytes, and  *)
(* the reader's methods are operators from a reader record to a record     *)
(* [r, err, val]: the reader after the call, the error ("ok" for Ok) and   *)
(* the value returned.                                                     *)
(***************************************************************************)
EXTENDS Integers, Sequences, FiniteSets, TLC

VARIABLES
    file,   \* the bytes of the file the reader is bound to
    rdr,    \* the BufReader: blocks, block_idx, cursor, loaded, peek_rolled, pos
    res,    \* the last reader call and what it returned: [op, n, err, val]
    off,    \* bytes consumed by the successful reads since construction; while
            \* expand runs, the archive offset of the header it read last
    calls,  \* reader calls made since construction, counted 0, 1, many (2)
    primed, \* the caller's first call after construction was load_block
    pc,          \* the place in Container::expand ("idle": expand is not run)
    result,      \* what expand returned: "none" until it returns
    sig,         \* the last signature expand peeked
    lfh,         \* the last LocalFileHeader expand read
    allocs,      \* the sizes of the byte vectors allocated since the last header
    fsops,       \* the calls made to the filesystem, in order: [op, path, data]
    bytes_to_go, \* the counter of the copy loop and of inflate's outer loop
    inf,         \* the locals of inflate
    epub,   \* the EPubFile: epub_filepath, container, package, toc
    marker, \* the marker file of the destination: [present, bytes]
    last,   \* the most recent EPubFile::expand into the destination: [path, err]
    doc,    \* the objects built from start tags: manifest, spine, nav point
    input,  \* the argument of the function under study
    output  \* the last call of the library and what it returned

xvars == <<pc, result, sig, lfh, allocs, fsops, bytes_to_go, inf>>

\* the variables of lib.rs, mbr.rs, package.rs, navigation.rs and of the path
\* functions of io.rs
lvars == <<epub, marker, last, doc, input, output>>

vars == <<file, rdr, res, off, calls, primed, pc, result, sig, lfh, allocs, fsops,
          bytes_to_go, inf, epub, marker, last, doc, input, output>>

(***************************************************************************)
(* Constants of the program and bounds of the model                        *)
(***************************************************************************)
BUFBLOCKSIZE == 512

\* io.rs, read: the largest n a read(n) accepts (the capacity of Vec<u8, U256>)
READMAX == 256

\* io.rs, read512_to_array: the longest array it accepts
ARRAYMAX == 512

\* the number of bytes in the last, partial block of a file
MaxTail == 3

\* how many bytes past the end of the file the reads of a run may ask for
MaxPast == 5

(***************************************************************************)
(* Helpers                                                                 *)
(***************************************************************************)
Min(a, b) == IF a < b THEN a ELSE b

\* s[a..b), with 0-based offsets as in a Rust slice
Slice(s, a, b) == [i \in 1..(b - a) |-> s[a + i]]

\* byteorder::LittleEndian::read_u16 / read_u32 on a byte slice
LittleEndian(bs) ==
    LET RECURSIVE le(_)
        le(k) == IF k > Len(bs) THEN 0 ELSE bs[k] + 256 * le(k + 1)
    IN  le(1)

ZeroBlock == [i \in 1..BUFBLOCKSIZE |-> 0]

\* the byte at 0-based offset i of a test file: never 0, and different in
\* consecutive blocks at the same block offset.  The bytes stay below 128 so
\* that every little-endian u32 built from them fits TLC's 32-bit integers.
FileByte(i) == 1 + ((7 * i) % 125)

FileOfLen(n) == [i \in 1..n |-> FileByte(i - 1)]

ReaderFileLens == {0, MaxTail, 2 * BUFBLOCKSIZE + MaxTail}

Ret(r, err, val) == [r |-> r, err |-> err, val |-> val]

\* "let x = v; F(x)": v is evaluated once, before F
Bind(v, F(_)) == CHOOSE y \in {F(x) : x \in {v}} : TRUE

(***************************************************************************)
(* BufReader (src/src/io.rs)                                               *)
(***************************************************************************)
\* BufReader::new: two zeroed blocks, nothing loaded, the file at its start
new == [blocks |-> <<ZeroBlock, ZeroBlock>>, block_idx |-> 0, cursor |-> 0,
        loaded |-> FALSE, peek_rolled |-> FALSE, pos |-> 0]

\* fatfs File::read into block tgt: copies the next min(512, bytes left) bytes
\* of the file to the front of the buffer, leaves the rest of the buffer as it
\* was, and returns the count (0 at the end of the file)
file_read(r, tgt, fail) ==
    IF fail THEN Ret(r, "IO", 0)
    ELSE LET n   == Min(BUFBLOCKSIZE, Len(file) - r.pos)
             old == r.blocks[tgt + 1]
             buf == [i \in 1..BUFBLOCKSIZE |-> IF i <= n THEN file[r.pos + i] ELSE old[i]]
         IN  Ret([r EXCEPT !.blocks[tgt + 1] = buf, !.pos = r.pos + n], "ok", n)

load_block(r, fail) ==
    IF r.peek_rolled
    THEN Ret([r EXCEPT !.peek_rolled = FALSE], "ok", 0)
    ELSE LET tgt == IF r.loaded THEN (IF r.block_idx = 0 THEN 1 ELSE 0) ELSE 0
         IN  file_read([r EXCEPT !.loaded = TRUE], tgt, fail)

Cur(r) == r.blocks[r.block_idx + 1]

Other(r) == r.blocks[(1 - r.block_idx) + 1]

read1(r, fail) ==
    IF r.cursor < BUFBLOCKSIZE
    THEN Ret([r EXCEPT !.cursor = r.cursor + 1], "ok", Cur(r)[r.cursor + 1])
    ELSE LET lb == load_block(r, fail)
         IN  IF lb.err # "ok" THEN Ret(lb.r, lb.err, 0)
             ELSE Ret([lb.r EXCEPT !.block_idx = 1 - lb.r.block_idx, !.cursor = 1],
                      "ok", Other(lb.r)[1])

read2(r, fail) ==
    IF r.cursor + 2 <= BUFBLOCKSIZE
    THEN Ret([r EXCEPT !.cursor = r.cursor + 2], "ok",
             LittleEndian(Slice(Cur(r), r.cursor, r.cursor + 2)))
    ELSE LET lb == load_block(r, fail)
             s  == lb.r
         IN  IF lb.err # "ok" THEN Ret(s, lb.err, 0)
             ELSE IF s.cursor = BUFBLOCKSIZE
             THEN Ret([s EXCEPT !.cursor = 2, !.block_idx = 1 - s.block_idx], "ok",
                      LittleEndian(<<Other(s)[1], Other(s)[2]>>))
             ELSE Ret([s EXCEPT !.cursor = 1, !.block_idx = 1 - s.block_idx], "ok",
                      LittleEndian(<<Cur(s)[BUFBLOCKSIZE], Other(s)[1]>>))

\* roll_over_4 as it would be if a peek forgot to record that it rolled over
roll_over_4_unflagged(r, peek, fail) ==
    LET lb == load_block(r, fail)
        s  == lb.r
        j  == BUFBLOCKSIZE - s.cursor
        tmpbuf == [i \in 1..4 |-> IF i <= j THEN Cur(s)[s.cursor + i] ELSE Other(s)[i - j]]
    IN  IF lb.err # "ok" THEN Ret(s, lb.err, 0)
        ELSE IF ~peek
        THEN Ret([s EXCEPT !.block_idx = 1 - s.block_idx, !.cursor = 4 - j], "ok",
                 LittleEndian(tmpbuf))
        ELSE Ret(s, "ok", LittleEndian(tmpbuf))

roll_over_4(r, peek, fail) ==
    LET lb == load_block(r, fail)
        s  == lb.r
        j  == BUFBLOCKSIZE - s.cursor
        tmpbuf == [i \in 1..4 |-> IF i <= j THEN Cur(s)[s.cursor + i] ELSE Other(s)[i - j]]
    IN  IF lb.err # "ok" THEN Ret(s, lb.err, 0)
        ELSE IF ~peek
        THEN Ret([s EXCEPT !.block_idx = 1 - s.block_idx, !.cursor = 4 - j], "ok",
                 LittleEndian(tmpbuf))
        ELSE Ret([s EXCEPT !.peek_rolled = TRUE], "ok", LittleEndian(tmpbuf))

read4(r, fail) ==
    IF r.cursor + 4 <= BUFBLOCKSIZE
    THEN Ret([r EXCEPT !.cursor = r.cursor + 4], "ok",
             LittleEndian(Slice(Cur(r), r.cursor, r.cursor + 4)))
    ELSE roll_over_4(r, FALSE, fail)

peek4(r, fail) ==
    IF r.cursor + 4 <= BUFBLOCKSIZE
    THEN Ret(r, "ok", LittleEndian(Slice(Cur(r), r.cursor, r.cursor + 4)))
    ELSE roll_over_4(r, TRUE, fail)

\* copy_n as it would be if the cursor and the active index were set before
\* the next block is loaded
copy_n_moves_first(r, n, fail) ==
    IF r.cursor + n < BUFBLOCKSIZE
    THEN Ret([r EXCEPT !.cursor = r.cursor + n], "ok",
             Slice(Cur(r), r.cursor, r.cursor + n))
    ELSE LET j  == BUFBLOCKSIZE - r.cursor
             m  == [r EXCEPT !.block_idx = 1 - r.block_idx, !.cursor = n - j]
             lb == load_block(m, fail)
         IN  IF lb.err # "ok" THEN Ret(lb.r, lb.err, <<>>)
             ELSE Ret(lb.r, "ok", Slice(Cur(r), r.cursor, BUFBLOCKSIZE)
                                      \o Slice(Cur(lb.r), 0, n - j))

\* the body shared by read and read512_to_array once the length is accepted
copy_n(r, n, fail) ==
    IF r.cursor + n < BUFBLOCKSIZE
    THEN Ret([r EXCEPT !.cursor = r.cursor + n], "ok",
             Slice(Cur(r), r.cursor, r.cursor + n))
    ELSE LET lb == load_block(r, fail)
             s  == lb.r
             j  == BUFBLOCKSIZE - s.cursor
         IN  IF lb.err # "ok" THEN Ret(s, lb.err, <<>>)
             ELSE Ret([s EXCEPT !.block_idx = 1 - s.block_idx, !.cursor = n - j], "ok",
                      Slice(Cur(s), s.cursor, BUFBLOCKSIZE) \o Slice(Other(s), 0, n - j))

\* read as it would be with the array's bound in place of the vector's
read_wide(r, n, fail) ==
    IF n > ARRAYMAX THEN Ret(r, "ReadTruncated", <<>>)
    ELSE copy_n(r, n, fail)

read(r, n, fail) ==
    IF n > READMAX THEN Ret(r, "ReadTruncated", <<>>)
    ELSE copy_n(r, n, fail)

read512_to_array(r, n, fail) ==
    IF n > ARRAYMAX THEN Ret(r, "ReadTruncated", <<>>)
    ELSE copy_n(r, n, fail)

(***************************************************************************)
(* The reader calls of container.rs that io.rs does not define             *)
(***************************************************************************)
\* BufReader::new as container.rs calls it, "BufReader::new(file)?": the
\* constructor that loads the first block and reports a failing load
open(fail) ==
    LET lb == load_block(new, fail)
    IN  Ret(lb.r, lb.err, 0)

\* read_to_array(arr): fills arr with the next Len(arr) bytes and returns the
\* count; a request above the maximum field size is ReadTruncated
read_to_array(r, n, fail) ==
    LET c == read512_to_array(r, n, fail)
    IN  IF c.err # "ok" THEN Ret(c.r, c.err, 0)
        ELSE [r |-> c.r, err |-> "ok", val |-> n, arr |-> c.val]

(***************************************************************************)
(* LocalFileHeader and DataDescriptor (src/src/container.rs)               *)
(***************************************************************************)
LOCALHEADERFILESIG == 67324752    \* 0x04034b50

CENTRAL_DIR_FILE_HEADER == 33639248    \* 0x02014b50

\* the bitwise and of two naturals
RECURSIVE BitAnd(_, _)
BitAnd(a, b) ==
    IF a = 0 \/ b = 0 THEN 0
    ELSE (IF a % 2 = 1 /\ b % 2 = 1 THEN 1 ELSE 0) + 2 * BitAnd(a \div 2, b \div 2)

\* String::from_utf8 accepts v: v is well-formed UTF-8 (lead byte ranges
\* C2..DF, E0..EF, F0..F4 followed by 1, 2, 3 continuation bytes 80..BF)
IsUtf8(v) ==
    LET Cont(k) == k <= Len(v) /\ v[k] >= 128 /\ v[k] <= 191
        RECURSIVE ok(_)
        ok(k) ==
            IF k > Len(v) THEN TRUE
            ELSE IF v[k] < 128 THEN ok(k + 1)
            ELSE IF v[k] >= 194 /\ v[k] <= 223 THEN Cont(k + 1) /\ ok(k + 2)
            ELSE IF v[k] >= 224 /\ v[k] <= 239
                 THEN Cont(k + 1) /\ Cont(k + 2) /\ ok(k + 3)
            ELSE IF v[k] >= 240 /\ v[k] <= 244
                 THEN Cont(k + 1) /\ Cont(k + 2) /\ Cont(k + 3) /\ ok(k + 4)
            ELSE FALSE
    IN  ok(1)

is_lfh(sig_byte) == sig_byte = LOCALHEADERFILESIG

have_data_descriptor(h) == BitAnd(h.general_purpose_flag, 16) = 16

is_file(h) == h.compressed_size > 0 /\ h.uncompressed_size > 0

SLASH == 47

ends_with_slash(s) == Len(s) > 0 /\ s[Len(s)] = SLASH

\* is_dir as it would be if no entry were taken for a directory
is_dir_never(h) == FALSE

is_dir(h) ==
    h.compressed_size = 0 /\ h.uncompressed_size = 0 /\ ends_with_slash(h.file_name)

\* a run of read2 (width 2) and read4 (width 4) calls, stopped by the first
\* error: [r, err, vals]
RECURSIVE read_fields(_, _, _, _)
read_fields(r, widths, fail, vals) ==
    IF widths = <<>> THEN [r |-> r, err |-> "ok", vals |-> vals]
    ELSE Bind(IF Head(widths) = 2 THEN read2(r, fail) ELSE read4(r, fail),
              LAMBDA x :
                IF x.err # "ok" THEN [r |-> x.r, err |-> x.err, vals |-> vals]
                ELSE read_fields(x.r, Tail(widths), fail, Append(vals, x.val)))

NoHeader ==
    [extract_version |-> 0, general_purpose_flag |-> 0, compression_method |-> 0,
     last_mod_file_time |-> 0, last_mod_file_date |-> 0, crc32 |-> 0,
     compressed_size |-> 0, uncompressed_size |-> 0, file_name |-> <<>>,
     extra_field |-> <<>>, data_descriptor |-> <<>>]

\* the result of LocalFileHeader::read: the reader, the error, the header and
\* the sizes of the buffers it allocated (Vec::resize), in order
HRet(r, err, h, al) == [r |-> r, err |-> err, val |-> h, allocs |-> al]

\* read_extra as it would be if the extra-field section were not read
read_extra_skipped(r, data_left, fieldvec, al0, fail) == HRet(r, "ok", fieldvec, al0)

\* the loop over the extra-field records.  data_left is a usize: when a
\* record is longer than what is left, "data_left -= data_len + 4" overflows
\* (a panic in a checked build, a wrapped counter otherwise): "Overflow".
RECURSIVE read_extra(_, _, _, _, _)
read_extra(r, data_left, fieldvec, al0, fail) ==
    IF data_left <= 0 THEN HRet(r, "ok", fieldvec, al0)
    ELSE Bind(read_fields(r, <<2, 2>>, fail, <<>>), LAMBDA hd :
           IF hd.err # "ok" THEN HRet(hd.r, hd.err, fieldvec, al0)
           ELSE LET id       == hd.vals[1]
                    data_len == hd.vals[2]
                    al       == Append(al0, data_len)
                IN  Bind(read_to_array(hd.r, data_len, fail), LAMBDA d :
                      IF d.err # "ok" THEN HRet(d.r, d.err, fieldvec, al)
                      ELSE IF data_len + 4 > data_left
                      THEN HRet(d.r, "Overflow", fieldvec, al)
                      ELSE read_extra(d.r, data_left - (data_len + 4),
                                      Append(fieldvec, [id |-> id, data |-> d.arr]),
                                      al, fail)))

\* LocalFileHeader::read once the signature is read and accepted
read_after_signature(r, fail) ==
    Bind(read_fields(r, <<2, 2, 2, 2, 2, 4, 4, 4, 2, 2>>, fail, <<>>), LAMBDA f :
      IF f.err # "ok" THEN HRet(f.r, f.err, NoHeader, <<>>)
      ELSE LET file_name_length   == f.vals[9]
               extra_field_length == f.vals[10]
               al == <<file_name_length>>
           IN  Bind(read_to_array(f.r, file_name_length, fail), LAMBDA v :
                 IF v.err # "ok" THEN HRet(v.r, v.err, NoHeader, al)
                 ELSE IF ~IsUtf8(v.arr) THEN HRet(v.r, "FromUTF8", NoHeader, al)
                 ELSE Bind(read_extra(v.r, extra_field_length, <<>>, al, fail), LAMBDA e :
                        IF e.err # "ok" THEN HRet(e.r, e.err, NoHeader, e.allocs)
                        ELSE HRet(e.r, "ok",
                                  [extract_version |-> f.vals[1],
                                   general_purpose_flag |-> f.vals[2],
                                   compression_method |-> f.vals[3],
                                   last_mod_file_time |-> f.vals[4],
                                   last_mod_file_date |-> f.vals[5],
                                   crc32 |-> f.vals[6],
                                   compressed_size |-> f.vals[7],
                                   uncompressed_size |-> f.vals[8],
                                   file_name |-> v.arr,
                                   extra_field |-> e.val,
                                   data_descriptor |-> <<>>],
                                  e.allocs))))

\* LocalFileHeader::read as it would be without the check of the signature
LocalFileHeader_read_unchecked(r, fail) ==
    Bind(read4(r, fail), LAMBDA s :
      IF s.err # "ok" THEN HRet(s.r, s.err, NoHeader, <<>>)
      ELSE read_after_signature(s.r, fail))

LocalFileHeader_read(r, fail) ==
    Bind(read4(r, fail), LAMBDA s :
      IF s.err # "ok" THEN HRet(s.r, s.err, NoHeader, <<>>)
      ELSE IF s.val # LOCALHEADERFILESIG
      THEN HRet(s.r, "InvalidLocalHeader", NoHeader, <<>>)
      ELSE read_after_signature(s.r, fail))

DataDescriptor_read(r, fail) ==
    Bind(read_fields(r, <<4, 4, 4>>, fail, <<>>), LAMBDA f :
      IF f.err # "ok" THEN Ret(f.r, f.err, <<>>)
      ELSE Ret(f.r, "ok", [crc32 |-> f.vals[1], compressed_size |-> f.vals[2],
                           uncompressed_size |-> f.vals[3]]))

\* Container::expanded_file_path
expanded_file_path(expanded_dir_path, fname) == expanded_dir_path \o <<SLASH>> \o fname

\* after_signature as it would be if every signature that is no local file
\* header ended the scan
after_signature_lenient(signature) ==
    IF is_lfh(signature) THEN [pc |-> "header", result |-> "none"]
    ELSE [pc |-> "done", result |-> "Ok"]

\* expand's dispatch on the peeked signature: the next step and the result
after_signature(signature) ==
    IF is_lfh(signature) THEN [pc |-> "header", result |-> "none"]
    ELSE IF signature = CENTRAL_DIR_FILE_HEADER THEN [pc |-> "done", result |-> "Ok"]
    ELSE [pc |-> "done", result |-> "FormatError"]

\* expand's check of the general purpose flag: the header is refused
flag_refused(h) == h.general_purpose_flag # 0 /\ ~have_data_descriptor(h)

\* the locals of inflate before its first chunk
NoInflate ==
    [n |-> 0, flags |-> 0, in_start |-> 0, keep_looping |-> FALSE,
     status |-> "none", out_consumed |-> 0, out_start |-> 0, count |-> 0,
     calls |-> 0]

InitReaderHistory ==
    /\ res = [op |-> "new", n |-> 0, err |-> "ok", val |-> 0]
    /\ off = 0
    /\ calls = 0
    /\ primed = FALSE

InitExpandState ==
    /\ result = "none"
    /\ sig = 0
    /\ lfh = NoHeader
    /\ allocs = <<>>
    /\ fsops = <<>>
    /\ bytes_to_go = 0
    /\ inf = NoInflate

\* no EPubFile, an empty destination, no tag seen, no library call made
NoEPubFile == [epub_filepath |-> <<>>, container |-> FALSE, package |-> FALSE,
               toc |-> FALSE]
NoMarker == [present |-> FALSE, bytes |-> <<>>]
NoExpand == [path |-> <<>>, err |-> "none"]
NoDoc == [kind |-> "none", items |-> <<>>, itemrefs |-> <<>>, toc |-> <<>>,
          nav |-> <<>>]
NoOutput == [op |-> "none", err |-> "none", val |-> <<>>]

InitLibState ==
    /\ epub = NoEPubFile
    /\ marker = NoMarker
    /\ last = NoExpand
    /\ doc = NoDoc
    /\ input = <<>>
    /\ output = NoOutput

(***************************************************************************)
(* The reader as a state machine: a file is bound, then the caller makes   *)
(* any sequence of calls.  A caller stops at the first IO error.           *)
(***************************************************************************)
ReadSizes == {0, 1, 3, READMAX - 1, READMAX, READMAX + 1}

ArraySizes == {2, ARRAYMAX, ARRAYMAX + 1}

Init ==
    /\ file \in {FileOfLen(n) : n \in ReaderFileLens}
    /\ rdr = new
    /\ pc = "idle"
    /\ InitReaderHistory
    /\ InitExpandState
    /\ InitLibState

Bump(c) == IF c = 0 THEN 1 ELSE 2

\* a call of method op asking for n bytes, that consumes them when it succeeds
Call(op, n, out) ==
    /\ res.err # "IO"
    /\ off + n <= Len(file) + MaxPast
    /\ rdr' = out.r
    /\ res' = [op |-> op, n |-> n, err |-> out.err, val |-> out.val]
    /\ off' = IF out.err = "ok" /\ op # "peek4" /\ op # "load_block" THEN off + n ELSE off
    /\ calls' = Bump(calls)
    /\ primed' = (primed \/ op = "load_block")
    /\ UNCHANGED file
    /\ UNCHANGED xvars
    /\ UNCHANGED lvars

\* the caller primes the reader right after constructing it
LoadBlock == \E fail \in BOOLEAN :
    /\ calls = 0
    /\ Call("load_block", 0, load_block(rdr, fail))

Read1 == \E fail \in BOOLEAN : Call("read1", 1, read1(rdr, fail))

Read2 == \E fail \in BOOLEAN : Call("read2", 2, read2(rdr, fail))

Read4 == \E fail \in BOOLEAN : Call("read4", 4, read4(rdr, fail))

Peek4 == \E fail \in BOOLEAN : Call("peek4", 4, peek4(rdr, fail))

Read == \E fail \in BOOLEAN, n \in ReadSizes : Call("read", n, read(rdr, n, fail))

Read512ToArray == \E fail \in BOOLEAN, n \in ArraySizes :
    Call("read512_to_array", n, read512_to_array(rdr, n, fail))

Next ==
    \/ LoadBlock
    \/ Read1
    \/ Read2
    \/ Read4
    \/ Peek4
    \/ Read
    \/ Read512ToArray

Spec == Init /\ [][Next]_vars

(***************************************************************************)
(* Container::expand (src/src/container.rs) as a state machine.  The       *)
(* program is sequential: pc is the place in expand, result its return     *)
(* value once pc = "done".  The archive is the input; each step that reads *)
(* the archive may meet an IO error; the output file may accept fewer      *)
(* bytes than a write offers; the decompressor is any decompressor.        *)
(***************************************************************************)
\* miniz_oxide hands back at most this many output bytes per call
MaxOut == 2

\* the decompressor is called at most this many times for one entry
MaxCalls == 2

\* the input and output chunk of inflate
CHUNK == 32768

\* the stored-copy chunk of expand
COPYCHUNK == 256

LE16(v) == <<v % 256, v \div 256>>

LE32(v) == <<v % 256, (v \div 256) % 256, (v \div 65536) % 256, v \div 16777216>>

\* the destination directory and the archive's path, as bytes: "/e" and "b"
Root == <<47, 101>>

EpubPath == <<98>>

FentryName == <<102, 101, 110, 116, 114, 121, 46, 116, 120, 116>>    \* "fentry.txt"

Newline == <<10>>

\* an archive entry: the header fields that matter, the name, the raw extra
\* field section, the payload and the data descriptor that follow
E(flag, method, csize, usize, name, payload, dd) ==
    [flag |-> flag, method |-> method, csize |-> csize, usize |-> usize,
     name |-> name, fnlen |-> Len(name), extra |-> <<>>, eflen |-> 0,
     payload |-> payload, dd |-> dd]

EntryBytes(e) ==
    LE32(LOCALHEADERFILESIG) \o LE16(20) \o LE16(e.flag) \o LE16(e.method)
    \o LE16(0) \o LE16(0) \o LE32(0) \o LE32(e.csize) \o LE32(e.usize)
    \o LE16(e.fnlen) \o LE16(e.eflen) \o e.name \o e.extra \o e.payload \o e.dd

Hi == <<104, 105, 10>>                   \* "hi\n"

Descriptor == LE32(0) \o LE32(3) \o LE32(3)

OneRecord == LE16(1) \o LE16(2) \o <<7, 9>>

\* a payload after which the next signature lies across the block boundary
BigLen == BUFBLOCKSIZE - 33

\* a compressed payload longer than the reader's largest array read
LongLen == ARRAYMAX + 88

Stored == E(0, 0, 3, 3, <<97>>, Hi, <<>>)                      \* "a"

Dir == E(0, 0, 0, 0, <<115, 47>>, <<>>, <<>>)                  \* "s/"

FirstEntries ==
    { Stored, Dir,
      E(8, 0, 3, 3, <<97>>, Hi, Descriptor),
      E(16, 0, 3, 3, <<97>>, Hi, Descriptor),
      E(16, 0, 3, 3, <<97>>, Hi, <<>>),
      E(24, 0, 3, 3, <<97>>, Hi, Descriptor),
      E(17, 0, 3, 3, <<97>>, Hi, Descriptor),
      E(1, 0, 3, 3, <<97>>, Hi, <<>>),
      E(0, 0, 3, 3, <<47, 120>>, Hi, <<>>),                    \* "/x"
      E(0, 0, 3, 3, <<46, 46, 47, 120>>, Hi, <<>>),            \* "../x"
      E(0, 0, 0, 0, <<46, 46, 47, 115, 47>>, <<>>, <<>>),      \* "../s/"
      [Stored EXCEPT !.fnlen = 5000],
      E(0, 8, 2, 3, <<97>>, <<1, 2>>, <<>>),
      E(0, 8, 0, 3, <<97>>, <<>>, <<>>),
      E(0, 8, LongLen, LongLen + 100, <<97>>, FileOfLen(LongLen), <<>>),
      E(0, 99, 3, 3, <<97>>, Hi, <<>>),
      E(16, 99, 3, 3, <<97>>, Hi, Descriptor),
      E(0, 0, 0, 0, <<122>>, <<>>, <<>>),                      \* "z"
      [Stored EXCEPT !.extra = OneRecord, !.eflen = 6],
      [Stored EXCEPT !.extra = OneRecord, !.eflen = 5],
      E(0, 0, BigLen, BigLen, <<97>>, FileOfLen(BigLen), <<>>) }

SecondEntries == {Stored, Dir}

Terminators == {LE32(CENTRAL_DIR_FILE_HEADER), LE32(0), <<>>}

Archives ==
    {t : t \in Terminators}
    \cup {EntryBytes(a) \o t : a \in FirstEntries, t \in Terminators}
    \cup {EntryBytes(a) \o EntryBytes(b) \o t :
            a \in FirstEntries, b \in SecondEntries, t \in Terminators}

\* the reader's offset in the archive.  The archives of the model are shorter
\* than two blocks, so the reader has flipped blocks at most once and
\* block_idx counts the blocks behind the active one.
Position(r) == r.block_idx * BUFBLOCKSIZE + r.cursor

\* what a write that is offered k > 0 bytes may accept
Accepts(k) == {k, (k + 1) \div 2}

FsOp(op, path, data) == [op |-> op, path |-> path, data |-> data]

InitExpand ==
    /\ file \in Archives
    /\ rdr = new
    /\ pc = "start"
    /\ InitReaderHistory
    /\ InitExpandState
    /\ InitLibState

\* expand returns err
Return(err) == pc' = "done" /\ result' = err

ThisFile == expanded_file_path(Root, lfh.file_name)

ExpandOpen == \E fail \in BOOLEAN :
    /\ pc = "start"
    /\ LET de_filename == expanded_file_path(Root, FentryName)
           o == open(fail)
       IN  /\ fsops' = <<FsOp("create_file", de_filename, <<>>),
                         FsOp("write", de_filename, EpubPath),
                         FsOp("write", de_filename, Newline)>>
           /\ rdr' = o.r
           /\ IF o.err # "ok" THEN Return(o.err)
              ELSE pc' = "scan" /\ UNCHANGED result
    /\ UNCHANGED <<file, sig, lfh, allocs, bytes_to_go, inf>>
    /\ UNCHANGED <<res, off, calls, primed>>
    /\ UNCHANGED lvars

ExpandPeek == \E fail \in BOOLEAN :
    /\ pc = "scan"
    /\ LET s == peek4(rdr, fail)
       IN  /\ rdr' = s.r
           /\ IF s.err # "ok" THEN Return(s.err) /\ UNCHANGED sig
              ELSE /\ sig' = s.val
                   /\ pc' = after_signature(s.val).pc
                   /\ result' = after_signature(s.val).result
    /\ UNCHANGED <<file, lfh, allocs, fsops, bytes_to_go, inf>>
    /\ UNCHANGED <<res, off, calls, primed>>
    /\ UNCHANGED lvars

ExpandHeader == \E fail \in BOOLEAN :
    /\ pc = "header"
    /\ LET h == LocalFileHeader_read(rdr, fail)
       IN  /\ rdr' = h.r
           /\ allocs' = h.allocs
           /\ lfh' = h.val
           /\ IF h.err # "ok" THEN Return(h.err)
              ELSE IF flag_refused(h.val) THEN Return("Unimplemented")
              ELSE pc' = "extract" /\ UNCHANGED result
    /\ off' = Position(rdr)
    /\ UNCHANGED <<file, sig, fsops, bytes_to_go, inf>>
    /\ UNCHANGED <<res, calls, primed>>
    /\ UNCHANGED lvars

ExpandEntry ==
    /\ pc = "extract"
    /\ IF lfh.compression_method = 0 \/ lfh.compression_method = 8
       THEN IF is_file(lfh)
            THEN /\ fsops' = Append(fsops, FsOp("create_file", ThisFile, <<>>))
                 /\ IF lfh.compression_method = 8
                    THEN /\ pc' = "inflate"
                         /\ bytes_to_go' = lfh.compressed_size
                         /\ inf' = NoInflate
                    ELSE /\ pc' = "copy"
                         /\ bytes_to_go' = lfh.uncompressed_size
                         /\ UNCHANGED inf
            ELSE IF is_dir(lfh)
            THEN /\ fsops' = Append(fsops, FsOp("create_dir", ThisFile, <<>>))
                 /\ pc' = "dd"
                 /\ UNCHANGED <<bytes_to_go, inf>>
            ELSE pc' = "dd" /\ UNCHANGED <<fsops, bytes_to_go, inf>>
       ELSE pc' = "dd" /\ UNCHANGED <<fsops, bytes_to_go, inf>>
    /\ UNCHANGED <<file, rdr, result, sig, lfh, allocs>>
    /\ UNCHANGED <<res, off, calls, primed>>
    /\ UNCHANGED lvars

\* one round of the loop that copies a stored file
ExpandCopy == \E fail \in BOOLEAN :
    /\ pc = "copy"
    /\ LET n == IF bytes_to_go > COPYCHUNK THEN COPYCHUNK ELSE bytes_to_go
           c == read_to_array(rdr, n, fail)
       IN  /\ rdr' = c.r
           /\ allocs' = Append(allocs, n)
           /\ IF c.err # "ok"
              THEN Return(c.err) /\ UNCHANGED <<fsops, bytes_to_go>>
              ELSE /\ \E acc \in Accepts(c.val) :
                        fsops' = Append(fsops, FsOp("write", ThisFile, Slice(c.arr, 0, acc)))
                   /\ bytes_to_go' = bytes_to_go - c.val
                   /\ pc' = IF bytes_to_go - c.val > 0 THEN "copy" ELSE "entry_done"
                   /\ UNCHANGED result
    /\ UNCHANGED <<file, sig, lfh, inf>>
    /\ UNCHANGED <<res, off, calls, primed>>
    /\ UNCHANGED lvars

\* chunk_len as it would be if the chunk took one byte more than is left
chunk_len_over(b) == b + 1

\* the length of inflate's next input chunk when b bytes are left
chunk_len(b) == IF b > CHUNK THEN CHUNK ELSE b

\* the head of inflate's outer loop: the next chunk is read, or inflate returns
InflateChunk == \E fail \in BOOLEAN :
    /\ pc = "inflate"
    /\ IF bytes_to_go > 0
       THEN LET n     == chunk_len(bytes_to_go)
                flags == IF bytes_to_go > CHUNK THEN 2 ELSE 0
                c     == read_to_array(rdr, n, fail)
            IN  /\ rdr' = c.r
                /\ IF c.err # "ok" THEN Return(c.err) /\ UNCHANGED inf
                   ELSE /\ inf' = [inf EXCEPT !.n = n, !.flags = flags, !.in_start = 0,
                                              !.keep_looping = TRUE]
                        /\ pc' = "decompress"
                        /\ UNCHANGED result
       ELSE pc' = "entry_done" /\ UNCHANGED <<rdr, result, inf>>
    /\ UNCHANGED <<file, sig, lfh, allocs, fsops, bytes_to_go>>
    /\ UNCHANGED <<res, off, calls, primed>>
    /\ UNCHANGED lvars

\* TINFLStatus: the three statuses inflate goes on with and two of the others
Statuses == {"NeedsMoreInput", "Done", "HasMoreOutput", "Failed", "BadParam"}

\* EPubError::Decompress(status)
Decompress(status) == "Decompress(" \o status \o ")"

\* status_fatal as it would be if Failed were the only fatal status
status_fatal_lenient(status) == status = "Failed"

\* the last arm of inflate's match on the status: inflate returns the error
status_fatal(status) == status \notin {"NeedsMoreInput", "Done", "HasMoreOutput"}

\* one call of core::decompress and the match on its status
InflateDecompress ==
    \E status \in Statuses, in_consumed \in 0..(inf.n - inf.in_start), out_consumed \in 0..MaxOut :
    /\ pc = "decompress"
    /\ inf.calls < MaxCalls
    /\ IF status_fatal(status)
       THEN Return(Decompress(status)) /\ inf' = [inf EXCEPT !.status = status]
       ELSE /\ inf' = [inf EXCEPT
                         !.status = status,
                         !.keep_looping = (status = "HasMoreOutput"),
                         !.in_start = IF status = "HasMoreOutput"
                                      THEN inf.in_start + in_consumed ELSE inf.in_start,
                         !.out_consumed = out_consumed,
                         !.out_start = 0,
                         !.calls = inf.calls + 1]
            /\ pc' = "iwrite"
            /\ UNCHANGED result
    /\ UNCHANGED <<file, rdr, sig, lfh, allocs, fsops, bytes_to_go>>
    /\ UNCHANGED <<res, off, calls, primed>>
    /\ UNCHANGED lvars

\* write_advance as it would be if every write were taken to be complete
write_advance_all(out_start, n) == inf.out_consumed

\* "out_start += n" after a write that accepted n bytes
write_advance(out_start, n) == out_start + n

\* the loop that writes the produced bytes, then the flush and the loop ends
InflateWrite ==
    /\ pc = "iwrite"
    /\ IF inf.out_start < inf.out_consumed
       THEN /\ \E acc \in Accepts(inf.out_consumed - inf.out_start) :
                 /\ fsops' = Append(fsops, FsOp("write", ThisFile,
                                [i \in 1..acc |-> inf.out_start + i]))
                 /\ inf' = [inf EXCEPT !.out_start = write_advance(inf.out_start, acc)]
            /\ UNCHANGED <<pc, bytes_to_go>>
       ELSE /\ fsops' = Append(fsops, FsOp("flush", ThisFile, <<>>))
            /\ inf' = [inf EXCEPT !.count = inf.count + inf.out_consumed]
            /\ IF inf.keep_looping
               THEN pc' = "decompress" /\ UNCHANGED bytes_to_go
               ELSE pc' = "inflate" /\ bytes_to_go' = bytes_to_go - inf.n
    /\ UNCHANGED <<file, rdr, result, sig, lfh, allocs>>
    /\ UNCHANGED <<res, off, calls, primed>>
    /\ UNCHANGED lvars

\* the file's name is added to the entry file
ExpandFileEntry ==
    /\ pc = "entry_done"
    /\ LET de_filename == expanded_file_path(Root, FentryName)
       IN  fsops' = fsops \o <<FsOp("write", de_filename, lfh.file_name),
                               FsOp("write", de_filename, Newline)>>
    /\ pc' = "dd"
    /\ UNCHANGED <<file, rdr, result, sig, lfh, allocs, bytes_to_go, inf>>
    /\ UNCHANGED <<res, off, calls, primed>>
    /\ UNCHANGED lvars

ExpandDataDescriptor == \E fail \in BOOLEAN :
    /\ pc = "dd"
    /\ IF have_data_descriptor(lfh)
       THEN LET dd == DataDescriptor_read(rdr, fail)
            IN  /\ rdr' = dd.r
                /\ IF dd.err # "ok" THEN Return(dd.err) /\ UNCHANGED lfh
                   ELSE /\ lfh' = [lfh EXCEPT !.data_descriptor = <<dd.val>>]
                        /\ pc' = "scan"
                        /\ UNCHANGED result
       ELSE pc' = "scan" /\ UNCHANGED <<rdr, result, lfh>>
    /\ UNCHANGED <<file, sig, allocs, fsops, bytes_to_go, inf>>
    /\ UNCHANGED <<res, off, calls, primed>>
    /\ UNCHANGED lvars

NextExpand ==
    \/ ExpandOpen
    \/ ExpandPeek
    \/ ExpandHeader
    \/ ExpandEntry
    \/ ExpandCopy
    \/ InflateChunk
    \/ InflateDecompress
    \/ InflateWrite
    \/ ExpandFileEntry
    \/ ExpandDataDescriptor

SpecExpand == InitExpand /\ [][NextExpand]_vars

(***************************************************************************)
(* Container::expand for the question whether it ends: the entries are     *)
(* stored, directories or skipped (inflate's loops are taken on their own  *)
(* below), and one archive is two blocks of entries with nothing after     *)
(* them.  The program runs on as long as it has a step to take.            *)
(***************************************************************************)
\* an entry of 32 bytes with a method expand has no branch for
SkippedEntry == E(0, 99, 0, 0, <<97, 98>>, <<>>, <<>>)

\* two blocks filled with that entry, and no central directory
EntriesOnly ==
    LET e == EntryBytes(SkippedEntry)
    IN  [i \in 1..(2 * BUFBLOCKSIZE) |-> e[((i - 1) % Len(e)) + 1]]

ArchivesWithoutDeflate ==
    {t : t \in Terminators}
    \cup {EntryBytes(a) \o t :
            a \in {x \in FirstEntries : x.method # 8}, t \in Terminators}
    \cup {EntriesOnly}

InitExpandAll ==
    /\ file \in ArchivesWithoutDeflate
    /\ rdr = new
    /\ pc = "start"
    /\ InitReaderHistory
    /\ InitExpandState
    /\ InitLibState

NextExpandAll ==
    \/ ExpandOpen
    \/ ExpandPeek
    \/ ExpandHeader
    \/ ExpandEntry
    \/ ExpandCopy
    \/ ExpandFileEntry
    \/ ExpandDataDescriptor

SpecExpandAll == InitExpandAll /\ [][NextExpandAll]_vars /\ WF_vars(NextExpandAll)

(***************************************************************************)
(* The loops of LocalFileHeader::inflate (src/src/container.rs) on their   *)
(* own, for the question whether they end.  The archive gives each chunk   *)
(* or fails; the decompressor and the output file are of a kind fixed for  *)
(* the whole call; nothing of the call's history is kept, so that a loop   *)
(* that does not end is a cycle of states.  The program runs on as long as *)
(* it has a step to take.                                                  *)
(***************************************************************************)
\* the decompressors: one that consumes input with every HasMoreOutput, and
\* one that returns HasMoreOutput with nothing consumed and nothing produced
Decompressors == {"consuming", "stuck"}

\* the output files: one that accepts bytes with every write, one that
\* accepts none, and one whose write and flush return an error
Sinks == {"accepting", "full", "failing"}

\* the compressed sizes of the entries inflated
CompressedSizes == {0, 1, CHUNK, CHUNK + 1, 2 * CHUNK + 1}

InitInflate ==
    /\ file = <<>>
    /\ rdr = new
    /\ InitReaderHistory
    /\ pc = "inflate"
    /\ result = "none" /\ sig = 0 /\ allocs = <<>> /\ fsops = <<>>
    /\ \E c \in CompressedSizes :
          /\ lfh = [NoHeader EXCEPT !.compression_method = 8, !.compressed_size = c,
                                    !.uncompressed_size = 1]
          /\ bytes_to_go = c
    /\ inf = NoInflate
    /\ epub = NoEPubFile /\ marker = NoMarker /\ last = NoExpand /\ doc = NoDoc
    /\ input \in [decompressor : Decompressors, sink : Sinks]
    /\ output = [op |-> "inflate", err |-> "none", val |-> 0]

\* the head of the outer loop; output.val counts the chunks read
LoopChunk == \E fail \in BOOLEAN :
    /\ pc = "inflate"
    /\ IF bytes_to_go > 0
       THEN IF fail THEN Return("IO") /\ UNCHANGED <<inf, output>>
            ELSE /\ inf' = [inf EXCEPT !.n = chunk_len(bytes_to_go),
                                       !.flags = IF bytes_to_go > CHUNK THEN 2 ELSE 0,
                                       !.in_start = 0, !.keep_looping = TRUE]
                 /\ output' = [output EXCEPT !.val = output.val + 1]
                 /\ pc' = "decompress"
                 /\ UNCHANGED result
       ELSE pc' = "entry_done" /\ result' = "Ok" /\ UNCHANGED <<inf, output>>
    /\ UNCHANGED <<file, rdr, res, off, calls, primed, sig, lfh, allocs, fsops, bytes_to_go>>
    /\ UNCHANGED <<epub, marker, last, doc, input>>

\* what a call of core::decompress may return: [status, in_consumed,
\* out_consumed]
Decompressions ==
    IF input.decompressor = "stuck"
    THEN {[status |-> "HasMoreOutput", in_consumed |-> 0, out_consumed |-> 0]}
    ELSE {[status |-> st, in_consumed |-> ic, out_consumed |-> oc] :
             st \in Statuses \ {"HasMoreOutput"}, ic \in {inf.n - inf.in_start},
             oc \in {0, MaxOut}}
         \cup {[status |-> "HasMoreOutput", in_consumed |-> ic, out_consumed |-> MaxOut] :
                  ic \in Accepts(inf.n - inf.in_start) \ {0}}

\* one call of core::decompress and the match on its status
LoopDecompress == \E d \in Decompressions :
    /\ pc = "decompress"
    /\ IF status_fatal(d.status)
       THEN Return(Decompress(d.status)) /\ inf' = [inf EXCEPT !.status = d.status]
       ELSE /\ inf' = [inf EXCEPT
                         !.status = d.status,
                         !.keep_looping = (d.status = "HasMoreOutput"),
                         !.in_start = IF d.status = "HasMoreOutput"
                                      THEN inf.in_start + d.in_consumed ELSE inf.in_start,
                         !.out_consumed = d.out_consumed,
                         !.out_start = 0]
            /\ pc' = "iwrite"
            /\ UNCHANGED result
    /\ UNCHANGED <<file, rdr, res, off, calls, primed, sig, lfh, allocs, fsops, bytes_to_go>>
    /\ UNCHANGED lvars

\* what a write that is offered k > 0 bytes accepts
Accepted(k) == IF input.sink = "full" THEN {0} ELSE Accepts(k)

\* the loop that writes the produced bytes, then the flush and the loop ends;
\* inf.calls is the number of write calls of the round modulo 2, so that a
\* write that accepts nothing is a step like any other
LoopWrite ==
    /\ pc = "iwrite"
    /\ IF input.sink = "failing"
       THEN Return("IO") /\ UNCHANGED <<inf, bytes_to_go>>
       ELSE /\ UNCHANGED result
            /\ IF inf.out_start < inf.out_consumed
               THEN /\ \E acc \in Accepted(inf.out_consumed - inf.out_start) :
                         inf' = [inf EXCEPT !.out_start = write_advance(inf.out_start, acc),
                                            !.calls = 1 - @]
                    /\ UNCHANGED <<pc, bytes_to_go>>
               ELSE /\ inf' = [inf EXCEPT !.calls = 0]
                    /\ IF inf.keep_looping
                       THEN pc' = "decompress" /\ UNCHANGED bytes_to_go
                       ELSE pc' = "inflate" /\ bytes_to_go' = bytes_to_go - inf.n
    /\ UNCHANGED <<file, rdr, res, off, calls, primed, sig, lfh, allocs, fsops>>
    /\ UNCHANGED lvars

NextInflate ==
    \/ LoopChunk
    \/ LoopDecompress
    \/ LoopWrite

SpecInflate == InitInflate /\ [][NextInflate]_vars /\ WF_vars(NextInflate)

(***************************************************************************)
(* LocalFileHeader::read called on its own: a primed reader is moved to    *)
(* some offset of a file and the header is read there, whatever the bytes  *)
(* at that offset are.                                                     *)
(***************************************************************************)
\* what the file holds where a header is expected: the signature, the
\* signature with one byte changed, the central directory's, zeros
FirstFours ==
    {LE32(LOCALHEADERFILESIG), LE32(CENTRAL_DIR_FILE_HEADER), LE32(0),
     <<81, 75, 3, 4>>, <<80, 76, 3, 4>>, <<80, 75, 4, 4>>, <<80, 75, 3, 5>>}

\* the offsets of those four bytes: the file's start, and 2 bytes before the
\* end of the first block
HeaderPads == {0, BUFBLOCKSIZE - 2}

\* the lengths the caller skips in one read
SeekSizes == {1, READMAX - 1}

HeaderFiles ==
    {FileOfLen(p) \o f \o Slice(EntryBytes(Stored), 4, Len(EntryBytes(Stored))) :
        p \in HeaderPads, f \in FirstFours}

InitHeader ==
    /\ file \in HeaderFiles
    /\ rdr = load_block(new, FALSE).r
    /\ pc = "seek"
    /\ InitReaderHistory
    /\ InitExpandState
    /\ InitLibState

\* the caller reads n bytes on its way to the header
HeaderSeek == \E n \in SeekSizes :
    /\ pc = "seek"
    /\ off + n <= BUFBLOCKSIZE
    /\ LET c == read(rdr, n, FALSE)
       IN  /\ rdr' = c.r
           /\ res' = [op |-> "read", n |-> n, err |-> c.err, val |-> c.val]
    /\ off' = off + n
    /\ UNCHANGED <<file, calls, primed, xvars>>
    /\ UNCHANGED lvars

\* the caller reads a header where the reader stands
HeaderParse == \E fail \in BOOLEAN :
    /\ pc = "seek"
    /\ LET h == LocalFileHeader_read(rdr, fail)
       IN  /\ rdr' = h.r
           /\ lfh' = h.val
           /\ allocs' = h.allocs
           /\ result' = h.err
    /\ pc' = "parsed"
    /\ UNCHANGED <<file, res, off, calls, primed, sig, fsops, bytes_to_go, inf>>
    /\ UNCHANGED lvars

NextHeader ==
    \/ HeaderSeek
    \/ HeaderParse

SpecHeader == InitHeader /\ [][NextHeader]_vars

(***************************************************************************)
(* EPubFile (src/src/lib.rs) as a state machine: EPubFile objects are made *)
(* for archive paths, all with the same destination directory, and their   *)
(* methods are called in any order.  Container::expand, studied above, is  *)
(* here a call that returns Ok or an error; reading the metadata files is  *)
(* a call with one of the outcomes the code distinguishes.                 *)
(***************************************************************************)
\* every variable of the reader and of Container::expand
ovars == <<file, rdr, res, off, calls, primed, xvars>>

\* no archive is being read
InitNoArchive ==
    /\ file = <<>>
    /\ rdr = new
    /\ pc = "idle"
    /\ InitReaderHistory
    /\ InitExpandState

\* the archive paths: "/a", "/b" and the longer "/ab"
EpubPaths == {<<SLASH, 97>>, <<SLASH, 98>>, <<SLASH, 97, 98>>}

\* the byte that ends a line
LF == 10

\* EPubFile::new
EPubFile_new(epub_filepath) ==
    [epub_filepath |-> epub_filepath, container |-> FALSE, package |-> FALSE,
     toc |-> FALSE]

\* the lines of a text: the runs of bytes between line feeds, the last one
\* when it is not empty
RECURSIVE LinesFrom(_, _, _)
LinesFrom(bytes, i, line) ==
    IF i > Len(bytes) THEN (IF line = <<>> THEN <<>> ELSE <<line>>)
    ELSE IF bytes[i] = LF THEN <<line>> \o LinesFrom(bytes, i + 1, <<>>)
    ELSE LinesFrom(bytes, i + 1, Append(line, bytes[i]))

\* BufReader::read_lines on a reader of a file holding bytes
read_lines(bytes) == LinesFrom(bytes, 1, <<>>)

\* the comparison of has_expanded's loop: only the first line is looked at
first_line_is(lines, path) == Len(lines) > 0 /\ lines[1] = path

\* EPubFile::has_expanded; fail: making the reader or reading the lines fails
has_expanded_any_marker(e, m, fail) ==
    IF ~m.present THEN [err |-> "Ok", val |-> FALSE]
    ELSE IF fail THEN [err |-> "IO", val |-> FALSE]
    ELSE [err |-> "Ok", val |-> TRUE]

has_expanded(e, m, fail) ==
    IF ~m.present THEN [err |-> "Ok", val |-> FALSE]
    ELSE IF fail THEN [err |-> "IO", val |-> FALSE]
    ELSE [err |-> "Ok", val |-> first_line_is(read_lines(m.bytes), e.epub_filepath)]

\* fatfs Dir::create_file as expand calls it: makes an empty file, or opens
\* the one that is there, as it is, at its start
create_file(m) == IF m.present THEN m ELSE [present |-> TRUE, bytes |-> <<>>]

\* fatfs File::write at the start of the marker: the bytes written replace
\* the bytes at their place, the bytes after them stay
write(m, data) ==
    [m EXCEPT !.bytes = data \o SubSeq(m.bytes, Len(data) + 1, Len(m.bytes))]

\* the steps of EPubFile::expand that can fail, "none" when none does
ExpandSteps == {"create_dirs", "expand", "create_file", "write", "none"}

\* what Container::expand fails with
ExpandErrors == {"IO", "FormatError"}

\* EPubFile::expand, where step failing fails, Container::expand with err
EPubFile_expand(e, m, failing, err) ==
    LET cleared == [e EXCEPT !.container = FALSE, !.package = FALSE, !.toc = FALSE]
        con     == [cleared EXCEPT !.container = TRUE]
    IN  CASE failing = "create_dirs" -> [epub |-> cleared, marker |-> m, err |-> "IO"]
          [] failing = "expand"      -> [epub |-> con, marker |-> m, err |-> err]
          [] failing = "create_file" -> [epub |-> con, marker |-> m, err |-> "IO"]
          [] failing = "write"       -> [epub |-> con, marker |-> create_file(m), err |-> "IO"]
          [] OTHER -> [epub |-> con, marker |-> write(create_file(m), e.epub_filepath),
                       err |-> "Ok"]

\* what reading the metadata of an expanded archive comes to: an error, no
\* root file in container.xml, a package whose toc is not in the manifest,
\* a package and its toc
Metadata == {"err", "no_rootfile", "no_toc", "all"}

\* EPubFile::read_container
read_container(e, m, fail, metadata) ==
    IF e.package /\ e.toc THEN [epub |-> e, err |-> "Ok"]
    ELSE LET h == has_expanded(e, m, fail)
             c == [e EXCEPT !.container = TRUE]
         IN  IF ~e.container /\ h.err # "Ok" THEN [epub |-> e, err |-> h.err]
             ELSE IF ~e.container /\ ~h.val
                  THEN [epub |-> e, err |-> "EPubFileNotExpanded"]
             ELSE CASE metadata = "err" -> [epub |-> c, err |-> "IO"]
                    [] metadata = "no_rootfile" -> [epub |-> c, err |-> "Ok"]
                    [] metadata = "no_toc" ->
                        [epub |-> [c EXCEPT !.package = TRUE], err |-> "Ok"]
                    [] OTHER ->
                        [epub |-> [c EXCEPT !.package = TRUE, !.toc = TRUE],
                         err |-> "Ok"]

\* EPubFile::get_package and get_toc: read_container, then unwrap
get_package(e, m, fail, metadata) ==
    LET rc == read_container(e, m, fail, metadata)
    IN  IF rc.err = "Ok" /\ ~rc.epub.package THEN [rc EXCEPT !.err = "panic"] ELSE rc

get_toc(e, m, fail, metadata) ==
    LET rc == read_container(e, m, fail, metadata)
    IN  IF rc.err = "Ok" /\ ~rc.epub.toc THEN [rc EXCEPT !.err = "panic"] ELSE rc

InitEPub ==
    /\ InitNoArchive
    /\ InitLibState

\* a call of the library that returned err and val
Out(op, err, val) == [op |-> op, err |-> err, val |-> val]

EPubNew == \E p \in EpubPaths :
    /\ epub' = EPubFile_new(p)
    /\ output' = Out("new", "Ok", <<>>)
    /\ UNCHANGED <<marker, last, doc, input, ovars>>

EPubExpand == \E failing \in ExpandSteps, err \in ExpandErrors :
    /\ epub.epub_filepath # <<>>
    /\ LET x == EPubFile_expand(epub, marker, failing, err)
       IN  /\ epub' = x.epub
           /\ marker' = x.marker
           /\ last' = [path |-> epub.epub_filepath, err |-> x.err]
           /\ output' = Out("expand", x.err, <<>>)
    /\ UNCHANGED <<doc, input, ovars>>

HasExpanded == \E fail \in BOOLEAN :
    /\ epub.epub_filepath # <<>>
    /\ LET h == has_expanded(epub, marker, fail)
       IN  output' = Out("has_expanded", h.err, h.val)
    /\ UNCHANGED <<epub, marker, last, doc, input, ovars>>

\* a call of f, one of read_container, get_package and get_toc
Metadata_call(op, f(_, _, _, _)) == \E fail \in BOOLEAN, metadata \in Metadata :
    /\ epub.epub_filepath # <<>>
    /\ LET rc == f(epub, marker, fail, metadata)
       IN  /\ epub' = rc.epub
           /\ output' = Out(op, rc.err, <<>>)
    /\ UNCHANGED <<marker, last, doc, input, ovars>>

ReadContainer == Metadata_call("read_container", read_container)

GetPackage == Metadata_call("get_package", get_package)

GetToc == Metadata_call("get_toc", get_toc)

NextEPub ==
    \/ EPubNew
    \/ EPubExpand
    \/ HasExpanded
    \/ ReadContainer
    \/ GetPackage
    \/ GetToc

SpecEPub == InitEPub /\ [][NextEPub]_vars

(***************************************************************************)
(* get_partition (src/src/mbr.rs): the function is applied to the first    *)
(* sector of a disk and a volume index.                                    *)
(***************************************************************************)
PARTITION1_START == 446
PARTITION_INFO_LENGTH == 16
FOOTER_START == 510
FOOTER_VALUE == 43605
PARTITION_INFO_STATUS_INDEX == 0
PARTITION_INFO_TYPE_INDEX == 4
PARTITION_INFO_LBA_START_INDEX == 8
PARTITION_INFO_NUM_BLOCKS_INDEX == 12

\* the largest volume index asked for
MaxVolume == 5

\* the 0-based offset of the table entry of volume i < 4 (PARTITION1_START
\* .. PARTITION4_START)
partition_start_first(i) == PARTITION1_START

partition_start(i) == PARTITION1_START + i * PARTITION_INFO_LENGTH

\* the status byte is 0x00 or 0x80
status_valid_any(b) == TRUE

status_valid(b) == BitAnd(b, 127) = 0

NoPartition == [part_type |-> 0, lba_start |-> 0, num_blocks |-> 0]

\* get_partition on a file that holds sector; fail: the read fails
get_partition(sector, volume_idx, fail) ==
    IF fail THEN Out("get_partition", "IO", NoPartition)
    ELSE
    LET block == [i \in 1..BUFBLOCKSIZE |-> IF i <= Len(sector) THEN sector[i] ELSE 0]
    IN  IF LittleEndian(Slice(block, FOOTER_START, FOOTER_START + 2)) # FOOTER_VALUE
        THEN Out("get_partition", "FormatError", NoPartition)
        ELSE IF volume_idx > 3
        THEN Out("get_partition", "NoSuchVolume", NoPartition)
        ELSE
        LET start     == partition_start(volume_idx)
            partition == Slice(block, start, start + PARTITION_INFO_LENGTH)
        IN  IF ~status_valid(partition[PARTITION_INFO_STATUS_INDEX + 1])
            THEN Out("get_partition", "FormatError", NoPartition)
            ELSE Out("get_partition", "Ok",
                     [part_type  |-> partition[PARTITION_INFO_TYPE_INDEX + 1],
                      lba_start  |-> LittleEndian(Slice(partition,
                                         PARTITION_INFO_LBA_START_INDEX,
                                         PARTITION_INFO_LBA_START_INDEX + 4)),
                      num_blocks |-> LittleEndian(Slice(partition,
                                         PARTITION_INFO_NUM_BLOCKS_INDEX,
                                         PARTITION_INFO_NUM_BLOCKS_INDEX + 4))])

\* the footers of the sectors: 55 AA, the two bytes swapped, one of them
\* wrong, zeros
Footers == {<<85, 170>>, <<170, 85>>, <<85, 0>>, <<0, 0>>}

\* the status bytes of the table entries: not bootable, bootable, others
StatusBytes == {0, 128, 1}

\* the table entry of volume i with status st: type 0x0C + i, first block
\* 0x00000800 + i, 0x01100000 + i blocks
TableEntry(i, st) ==
    <<st, 0, 0, 0, 12 + i, 0, 0, 0>> \o <<i, 8, 0, 0>> \o <<i, 0, 16, 1>>

\* the sector with boot code byte 7, the four table entries with the
\* statuses sts and the footer
Sector(sts, footer) ==
    [i \in 1..PARTITION1_START |-> 7]
        \o TableEntry(0, sts[1]) \o TableEntry(1, sts[2])
        \o TableEntry(2, sts[3]) \o TableEntry(3, sts[4]) \o footer

Sectors == {Sector(sts, f) : sts \in [1..4 -> StatusBytes], f \in Footers}

InitMbr ==
    /\ InitNoArchive
    /\ epub = NoEPubFile /\ marker = NoMarker /\ last = NoExpand /\ doc = NoDoc
    /\ input \in {[sector |-> sec, volume_idx |-> v] : sec \in Sectors, v \in 0..MaxVolume}
    /\ output = NoOutput

GetPartition == \E fail \in BOOLEAN :
    /\ output = NoOutput
    /\ output' = get_partition(input.sector, input.volume_idx, fail)
    /\ UNCHANGED <<epub, marker, last, doc, input, ovars>>

NextMbr ==
    \/ GetPartition

SpecMbr == InitMbr /\ [][NextMbr]_vars

(***************************************************************************)
(* The values built from XML start tags (src/src/package.rs and            *)
(* src/src/navigation.rs): a manifest, a spine or a nav point receives     *)
(* start tags in any order.  A panic ends the program.                     *)
(***************************************************************************)
\* the most items, itemrefs a document adds, and the most bytes of a text
MaxItems == 2
MaxText == 2

\* an attribute of a start tag: the map's key is (name, namespace)
Attribute(name, ns, value) == [name |-> name, ns |-> ns, value |-> value]

\* a StartTag: its name and its attributes
StartTag(name, attributes) == [name |-> name, attributes |-> attributes]

\* tag.attributes.get(&(String::from(name), None))
get(tag, name) ==
    LET hits == {k \in 1..Len(tag.attributes) :
                    tag.attributes[k].name = name /\ tag.attributes[k].ns = "None"}
    IN  IF hits = {} THEN [some |-> FALSE, value |-> <<>>]
        ELSE [some |-> TRUE, value |-> tag.attributes[CHOOSE k \in hits : TRUE].value]

\* Item::new
Item_new(tag) ==
    LET id    == get(tag, "id")
        href  == get(tag, "href")
        mtype == get(tag, "media-type")
    IN  IF id.some /\ href.some /\ mtype.some
        THEN [err |-> "Ok", val |-> [id |-> id.value, href |-> href.value,
                                     media_type |-> mtype.value]]
        ELSE [err |-> "panic", val |-> <<>>]

\* ItemRef::new
ItemRef_new_lenient(tag) == [err |-> "Ok", val |-> [idref |-> get(tag, "idref").value]]

ItemRef_new(tag) ==
    LET id == get(tag, "idref")
    IN  IF id.some THEN [err |-> "Ok", val |-> [idref |-> id.value]]
        ELSE [err |-> "panic", val |-> <<>>]

\* Manifest::add_tag
Manifest_add_tag(d, tag) ==
    LET item == Item_new(tag)
    IN  IF item.err = "Ok"
        THEN [doc |-> [d EXCEPT !.items = Append(d.items, item.val)], err |-> "Ok"]
        ELSE [doc |-> d, err |-> item.err]

\* Spine::add_tag
Spine_add_tag(d, tag) ==
    IF tag.name = "spine"
    THEN LET toc == get(tag, "toc")
         IN  IF toc.some THEN [doc |-> [d EXCEPT !.toc = d.toc \o toc.value], err |-> "Ok"]
             ELSE [doc |-> d, err |-> "panic"]
    ELSE LET ref == ItemRef_new(tag)
         IN  IF ref.err = "Ok"
             THEN [doc |-> [d EXCEPT !.itemrefs = Append(d.itemrefs, ref.val)], err |-> "Ok"]
             ELSE [doc |-> d, err |-> ref.err]

\* str::parse::<u32>: decimal digits after an optional "+"; anything else,
\* the empty text and a sign alone are errors
ParseU32(text) ==
    LET digits == IF Len(text) > 0 /\ text[1] = 43 THEN Tail(text) ELSE text
        RECURSIVE value(_)
        value(k) == IF k = 0 THEN 0 ELSE 10 * value(k - 1) + (digits[k] - 48)
    IN  IF digits = <<>> \/ \E k \in 1..Len(digits) : digits[k] < 48 \/ digits[k] > 57
        THEN [ok |-> FALSE, val |-> 0]
        ELSE [ok |-> TRUE, val |-> value(Len(digits))]

\* NavPoint::new
NavPoint_new(tag) ==
    LET id    == get(tag, "id")
        order == get(tag, "playOrder")
    IN  IF ~id.some \/ ~order.some THEN [err |-> "InvalidXml", val |-> <<>>]
        ELSE IF ~ParseU32(order.value).ok THEN [err |-> "panic", val |-> <<>>]
        ELSE [err |-> "Ok", val |-> [id |-> id.value,
                                     play_order |-> ParseU32(order.value).val,
                                     label |-> <<>>, content |-> <<>>]]

\* NavPoint::add_label
add_label(nav, label) == [nav EXCEPT !.label = nav.label \o label]

\* NavPoint::add_content
add_content(nav, tag) ==
    LET src == get(tag, "src")
    IN  IF src.some THEN [nav |-> [nav EXCEPT !.content = nav.content \o src.value],
                          err |-> "Ok"]
        ELSE [nav |-> nav, err |-> "InvalidXml"]

\* the attribute lists of the tags: each attribute the code asks for is
\* there, or is not, or is there in a namespace or under another name
Attrs(name, values) ==
    {<<>>, <<Attribute(name \o "s", "None", <<120>>)>>, <<Attribute(name, "Some", <<120>>)>>}
        \cup {<<Attribute(name, "None", v)>> : v \in values}

ItemTags ==
    {StartTag("item", a \o b \o c) :
        a \in Attrs("id", {<<105>>, <<106>>}),
        b \in {<<>>, <<Attribute("href", "None", <<104>>)>>},
        c \in {<<>>, <<Attribute("media-type", "None", <<109>>)>>}}

ItemRefTags == {StartTag("itemref", a) : a \in Attrs("idref", {<<105>>, <<106>>})}

SpineTags == {StartTag("spine", a) : a \in Attrs("toc", {<<116>>})}

\* playOrder: "1", "12", "+7", "x", "-1", "1x", "" and none
NavPointTags ==
    {StartTag("navPoint", a \o b) :
        a \in Attrs("id", {<<105>>}),
        b \in Attrs("playOrder", {<<49>>, <<49, 50>>, <<43, 55>>, <<120>>, <<45, 49>>,
                                  <<49, 120>>, <<>>})}

ContentTags == {StartTag("content", a) : a \in Attrs("src", {<<115>>})}

Labels == {<<>>, <<76>>}

\* the objects that receive tags
Kinds == {"Manifest", "Spine", "NavPoint"}

InitXml ==
    /\ InitNoArchive
    /\ epub = NoEPubFile /\ marker = NoMarker /\ last = NoExpand
    /\ doc \in {[NoDoc EXCEPT !.kind = k] : k \in Kinds}
    /\ input = <<>>
    /\ output = NoOutput

\* a call with argument arg returned err
XmlCall(op, arg, err) ==
    /\ output.err # "panic"
    /\ input' = arg
    /\ output' = Out(op, err, <<>>)
    /\ UNCHANGED <<epub, marker, last, ovars>>

ManifestAddTag == \E tag \in ItemTags :
    /\ doc.kind = "Manifest"
    /\ Len(doc.items) < MaxItems
    /\ doc' = Manifest_add_tag(doc, tag).doc
    /\ XmlCall("Manifest::add_tag", tag, Manifest_add_tag(doc, tag).err)

SpineAddTag == \E tag \in SpineTags \cup ItemRefTags :
    /\ doc.kind = "Spine"
    /\ Len(doc.itemrefs) < MaxItems
    /\ Len(doc.toc) < MaxText
    /\ doc' = Spine_add_tag(doc, tag).doc
    /\ XmlCall("Spine::add_tag", tag, Spine_add_tag(doc, tag).err)

NavPointNew == \E tag \in NavPointTags :
    /\ doc.kind = "NavPoint"
    /\ doc' = IF NavPoint_new(tag).err = "Ok"
              THEN [doc EXCEPT !.nav = <<NavPoint_new(tag).val>>] ELSE doc
    /\ XmlCall("NavPoint::new", tag, NavPoint_new(tag).err)

AddLabel == \E label \in Labels :
    /\ doc.nav # <<>>
    /\ Len(doc.nav[1].label) < MaxText
    /\ doc' = [doc EXCEPT !.nav = <<add_label(doc.nav[1], label)>>]
    /\ XmlCall("NavPoint::add_label", label, "Ok")

AddContent == \E tag \in ContentTags :
    /\ doc.nav # <<>>
    /\ Len(doc.nav[1].content) < MaxText
    /\ doc' = [doc EXCEPT !.nav = <<add_content(doc.nav[1], tag).nav>>]
    /\ XmlCall("NavPoint::add_content", tag, add_content(doc.nav[1], tag).err)

NextXml ==
    \/ ManifestAddTag
    \/ SpineAddTag
    \/ NavPointNew
    \/ AddLabel
    \/ AddContent

SpecXml == InitXml /\ [][NextXml]_vars

(***************************************************************************)
(* split_path and basename_and_ext (src/src/io.rs): the functions are      *)
(* applied to a path.  The strings and the vector they build are heapless, *)
(* of the capacities U12, U8 and U4; a push beyond the capacity is         *)
(* unwrapped and panics.                                                   *)
(***************************************************************************)
U12 == 12
U8 == 8
U4 == 4
DOT == 46

\* the UTF-8 encoding of (byte as char)
as_char(byte) == IF byte < 128 THEN <<byte>> ELSE <<192 + (byte \div 64), 128 + (byte % 64)>>

\* split_path from the byte at index i on, with the elements pushed and the
\* element being filled
RECURSIVE split_from(_, _, _, _)
split_from(bytes, i, path_elements, element) ==
    IF i > Len(bytes)
    THEN IF Len(element) = 0 THEN [err |-> "Ok", val |-> path_elements]
         ELSE IF Len(path_elements) = U8 THEN [err |-> "panic", val |-> <<>>]
         ELSE [err |-> "Ok", val |-> Append(path_elements, element)]
    ELSE IF bytes[i] # SLASH
    THEN IF Len(element) + Len(as_char(bytes[i])) > U12
         THEN [err |-> "panic", val |-> <<>>]
         ELSE split_from(bytes, i + 1, path_elements, element \o as_char(bytes[i]))
    ELSE IF i # 1
    THEN IF Len(path_elements) = U8 THEN [err |-> "panic", val |-> <<>>]
         ELSE split_from(bytes, i + 1, Append(path_elements, element), <<>>)
    ELSE split_from(bytes, i + 1, path_elements, element)

split_path(path) == split_from(path, 1, <<>>, <<>>)

\* the loop of basename_and_ext from the byte at index i on
RECURSIVE base_ext_from(_, _, _, _, _)
base_ext_from(bytes, i, base, ext, switch) ==
    IF i > Len(bytes) THEN [err |-> "Ok", val |-> <<base, ext>>]
    ELSE IF bytes[i] # DOT /\ ~switch
    THEN IF Len(base) = U8 THEN [err |-> "panic", val |-> <<>>]
         ELSE base_ext_from(bytes, i + 1, Append(base, bytes[i]), ext, switch)
    ELSE IF Len(ext) = U4 THEN [err |-> "panic", val |-> <<>>]
         ELSE base_ext_from(bytes, i + 1, base, Append(ext, bytes[i]), TRUE)

basename_and_ext(path) ==
    LET elements == split_path(path)
    IN  IF elements.err # "Ok" \/ elements.val = <<>> THEN [err |-> "panic", val |-> <<>>]
        ELSE base_ext_from(elements.val[Len(elements.val)], 1, <<>>, <<>>, FALSE)

\* the paths of the tests
TestPaths ==
    {<<47, 116, 104, 105, 115, 47, 112, 97, 116, 104, 47, 105, 115, 47, 104, 101, 114, 101, 46, 116, 120, 116>>,
     <<104, 101, 114, 101, 46, 116, 120, 116>>,
     <<47, 115, 116, 97, 114, 116, 47, 101, 110, 100, 47>>,
     <<47, 97, 47, 115, 116, 97, 114, 116, 47, 101, 110, 100, 46, 116, 120, 116>>,
     <<47, 115, 116, 97, 114, 116, 47, 101, 110, 100>>}

\* the components of the other paths: a, end.txt, end.html, longname1.x,
\* chapter01.txt, .x, a.b.c, e with an acute accent, and the empty one
PathComponents ==
    {<<97>>,
     <<101, 110, 100, 46, 116, 120, 116>>,
     <<101, 110, 100, 46, 104, 116, 109, 108>>,
     <<108, 111, 110, 103, 110, 97, 109, 101, 49, 46, 120>>,
     <<99, 104, 97, 112, 116, 101, 114, 48, 49, 46, 116, 120, 116>>,
     <<46, 120>>,
     <<97, 46, 98, 46, 99>>,
     <<195, 169>>,
     <<>>}

\* nine components
NineDeep == <<97, 47, 97, 47, 97, 47, 97, 47, 97, 47, 97, 47, 97, 47, 97, 47, 97>>

\* a path of two components, with or without a leading and a trailing "/"
Paths ==
    TestPaths \cup {NineDeep}
        \cup {lead \o c1 \o <<SLASH>> \o c2 \o trail :
                lead \in {<<>>, <<SLASH>>}, c1 \in PathComponents,
                c2 \in PathComponents, trail \in {<<>>, <<SLASH>>}}

InitPath ==
    /\ InitNoArchive
    /\ epub = NoEPubFile /\ marker = NoMarker /\ last = NoExpand /\ doc = NoDoc
    /\ input \in Paths
    /\ output = NoOutput

\* a call of a path function that returned r
PathCall(op, r) ==
    /\ output = NoOutput
    /\ output' = Out(op, r.err, r.val)
    /\ UNCHANGED <<epub, marker, last, doc, input, ovars>>

SplitPath == PathCall("split_path", split_path(input))

BasenameAndExt == PathCall("basename_and_ext", basename_and_ext(input))

NextPath ==
    \/ SplitPath
    \/ BasenameAndExt

SpecPath == InitPath /\ [][NextPath]_vars

(***************************************************************************)
(* Claims about the block reader, checked under Spec                       *)
(***************************************************************************)
Reads == {"read1", "read2", "read4", "read", "read512_to_array"}

\* what a call of op for n bytes returns when it returns the file's bytes at
\* 0-based offset o
Expected(op, n, o) ==
    IF op \in {"read", "read512_to_array"}
    THEN Slice(file, o, o + n)
    ELSE LittleEndian(Slice(file, o, o + n))

\* C1: in every reader state peek4 and then read4 return the same value, the
\* value read4 alone returns, and leave the reader (cursor, active index,
\* buffers, peek-rolled flag, file position) as read4 alone leaves it.
C1_PeekTransparent ==
    LET p == peek4(rdr, FALSE)
        a == read4(p.r, FALSE)
        b == read4(rdr, FALSE)
    IN  /\ p.err = "ok" /\ a.err = "ok" /\ b.err = "ok"
        /\ p.val = a.val
        /\ a.val = b.val
        /\ a.r = b.r

\* a peek4 has just read across the block boundary
C1_Witness ==
    /\ res.op = "peek4" /\ res.err = "ok"
    /\ rdr.peek_rolled
    /\ rdr.cursor > BUFBLOCKSIZE - 4 /\ rdr.cursor < BUFBLOCKSIZE
    /\ rdr.block_idx = 1

SplitSizes == {0, 1, 2, 3, READMAX - 3, READMAX - 1, READMAX}

\* C2: in every reader state, for n1 + n2 <= 256, read(n1) and then read(n2)
\* return together the bytes one read(n1 + n2) returns, and leave the reader
\* where it leaves it.
C2_ReadSplit ==
    \A n1 \in SplitSizes, n2 \in SplitSizes :
        n1 + n2 <= READMAX =>
            LET a == read(rdr, n1, FALSE)
                b == read(a.r, n2, FALSE)
                c == read(rdr, n1 + n2, FALSE)
            IN  /\ a.val \o b.val = c.val
                /\ b.r = c.r

\* C3: the first read after BufReader::new, with no load_block call before
\* it, returns the first bytes of the file.
C3_FirstReadSeesFile ==
    (/\ calls = 1
     /\ res.op \in Reads \cup {"peek4"}
     /\ res.err = "ok"
     /\ res.n <= Len(file))
        => res.val = Expected(res.op, res.n, 0)

\* C4: a read returns Ok only when the file holds all the bytes asked for,
\* and then it returns the file's bytes at the logical offset.  Stated for
\* readers whose first block the caller loaded right after construction.
C4_ReadsOnlyFileBytes ==
    (primed /\ res.op \in Reads /\ res.err = "ok")
        => /\ off <= Len(file)
           /\ res.val = Expected(res.op, res.n, off - res.n)

Oversize == {READMAX + 1, READMAX + 2, ARRAYMAX + 1, 5000}

\* C5: read(n) with n > 256, and read512_to_array with a target longer than
\* 512, return ReadTruncated and leave the whole reader, file position
\* included, as it was.
C5_OversizeRejected ==
    \A n \in Oversize, fail \in BOOLEAN :
        /\ n > READMAX => read(rdr, n, fail) = Ret(rdr, "ReadTruncated", <<>>)
        /\ n > ARRAYMAX => read512_to_array(rdr, n, fail) = Ret(rdr, "ReadTruncated", <<>>)

\* an oversize read was made where an accepted read would have fetched a block
C5_Witness ==
    /\ res.op = "read" /\ res.n > READMAX /\ res.err = "ReadTruncated"
    /\ rdr.cursor > BUFBLOCKSIZE - READMAX
    /\ rdr.loaded

(***************************************************************************)
(* Claims about LocalFileHeader and Container::expand, checked under       *)
(* SpecExpand                                                              *)
(***************************************************************************)
\* C6: a header whose filename length (or extra-field record length) exceeds
\* the maximum field size is refused with ReadTruncated before a buffer of
\* that length is allocated: no vector longer than the maximum is allocated.
C6_RefusedBeforeAllocation ==
    \A i \in DOMAIN allocs : allocs[i] <= ARRAYMAX

\* the steps expand may take from one place to the next
C7_Order ==
    /\ pc = "start" => pc' \in {"scan", "done"}
    /\ pc = "header" => pc' \in {"extract", "done"}
    /\ pc = "extract" => pc' \in {"copy", "inflate", "dd"}
    /\ pc = "copy" => pc' \in {"copy", "entry_done", "done"}
    /\ pc = "inflate" => pc' \in {"decompress", "entry_done", "done"}
    /\ pc = "decompress" => pc' \in {"iwrite", "done"}
    /\ pc = "iwrite" => pc' \in {"iwrite", "decompress", "inflate"}
    /\ pc = "entry_done" => pc' = "dd"
    /\ pc = "dd" => pc' \in {"scan", "done"}
    /\ pc # "done"

C8_DescriptorIsBit3 ==
    lfh # NoHeader =>
        (have_data_descriptor(lfh) <=> BitAnd(lfh.general_purpose_flag, 8) # 0)

\* C9: a header whose flag has a bit set besides the data-descriptor bit is
\* refused with Unimplemented.  The data-descriptor bit is taken to be either
\* bit 3 (the archive format's) or bit 4 (the one the code tests).
C9_OtherFlagsRefused ==
    (lfh # NoHeader /\ lfh.general_purpose_flag \notin {0, 8, 16})
        => (pc = "done" /\ result = "Unimplemented")

\* the name has a ".." component
HasDotDot(s) ==
    \E i \in 1..(Len(s) - 1) :
        /\ s[i] = 46 /\ s[i + 1] = 46
        /\ (i = 1 \/ s[i - 1] = SLASH)
        /\ (i + 1 = Len(s) \/ s[i + 2] = SLASH)

\* C10: every path expand creates is the destination root, a separator and a
\* relative name that has no ".." component.
C10_PathsStayInside ==
    \A i \in DOMAIN fsops :
        fsops[i].op \in {"create_file", "create_dir"} =>
            LET p   == fsops[i].path
                k   == Len(Root) + 1
                rel == Slice(p, k, Len(p))
            IN  /\ Len(p) > k
                /\ Slice(p, 0, k) = Root \o <<SLASH>>
                /\ rel[1] # SLASH
                /\ ~HasDotDot(rel)

(***************************************************************************)
(* Claims about the extraction of one entry, checked under SpecExpand      *)
(***************************************************************************)
\* the bytes the header h takes in the archive: 30 fixed bytes, the name and
\* the extra-field records (4 bytes and the data each)
RECURSIVE RecordsLen(_)
RecordsLen(fs) ==
    IF fs = <<>> THEN 0 ELSE 4 + Len(Head(fs).data) + RecordsLen(Tail(fs))

HeaderLen(h) == 30 + Len(h.file_name) + RecordsLen(h.extra_field)

\* where the payload of the entry read last begins and ends in the archive
PayloadStart == off + HeaderLen(lfh)

PayloadEnd == PayloadStart + lfh.compressed_size

\* the bytes written to path since it was created last, in order
RECURSIVE WrittenFrom(_, _)
WrittenFrom(path, i) ==
    IF i > Len(fsops) THEN <<>>
    ELSE (IF fsops[i].op = "write" /\ fsops[i].path = path THEN fsops[i].data ELSE <<>>)
         \o WrittenFrom(path, i + 1)

LastCreate(path) ==
    LET c == {i \in DOMAIN fsops : fsops[i].op = "create_file" /\ fsops[i].path = path}
    IN  IF c = {} THEN 0 ELSE CHOOSE i \in c : \A j \in c : j <= i

Written(path) == WrittenFrom(path, LastCreate(path) + 1)

\* C11: when the copy of a stored entry is over, the file created for it
\* holds exactly the uncompressed_size payload bytes of the archive, in
\* order, and the reader stands on the first byte after the payload, whatever
\* the writes accepted.
C11_StoredCopyExact ==
    (pc = "entry_done" /\ lfh.compression_method = 0 /\ PayloadEnd <= Len(file)) =>
        /\ Written(ThisFile) = Slice(file, PayloadStart, PayloadStart + lfh.uncompressed_size)
        /\ Position(rdr) = PayloadStart + lfh.uncompressed_size
        /\ lfh.uncompressed_size = lfh.compressed_size

\* inflate is running for the entry read last
InInflate == pc \in {"inflate", "decompress", "iwrite"}

\* C12: while inflate runs, neither its running count nor the bytes written
\* to the output file exceed the header's uncompressed_size.
C12_OutputWithinDeclaredSize ==
    InInflate =>
        /\ inf.count <= lfh.uncompressed_size
        /\ Len(Written(ThisFile)) <= lfh.uncompressed_size

RECURSIVE TailWrites(_)
TailWrites(ops) ==
    IF ops = <<>> \/ ops[Len(ops)].op # "write" THEN <<>>
    ELSE TailWrites(SubSeq(ops, 1, Len(ops) - 1)) \o ops[Len(ops)].data

\* the first k bytes of inflate's output buffer (byte i of the buffer is i)
Produced(k) == [i \in 1..k |-> i]

C15_FatalStatusEndsInflate ==
    [][/\ inf'.status \notin {"none", "NeedsMoreInput", "HasMoreOutput", "Done"} =>
            /\ pc = "decompress" /\ pc' = "done"
            /\ result' = Decompress(inf'.status)
            /\ rdr' = rdr /\ fsops' = fsops
            /\ inf' = [inf EXCEPT !.status = inf'.status]
       /\ (pc = "decompress" /\ pc' = "done") =>
            inf'.status \notin {"NeedsMoreInput", "HasMoreOutput", "Done"}
       /\ pc # "done"]_vars

\* the second call of the decompressor returned BadParam
C15_Witness ==
    /\ pc = "done" /\ result = "Decompress(BadParam)"
    /\ inf.status = "BadParam" /\ inf.calls = 1

RECURSIVE SerializeRecords(_)
SerializeRecords(fs) ==
    IF fs = <<>> THEN <<>>
    ELSE LE16(Head(fs).id) \o LE16(Len(Head(fs).data)) \o Head(fs).data
         \o SerializeRecords(Tail(fs))

\* the header h as bytes in the layout of a local file header
Serialize(h) ==
    LE32(LOCALHEADERFILESIG) \o LE16(h.extract_version) \o LE16(h.general_purpose_flag)
    \o LE16(h.compression_method) \o LE16(h.last_mod_file_time)
    \o LE16(h.last_mod_file_date) \o LE32(h.crc32) \o LE32(h.compressed_size)
    \o LE32(h.uncompressed_size) \o LE16(Len(h.file_name))
    \o LE16(RecordsLen(h.extra_field)) \o h.file_name \o SerializeRecords(h.extra_field)

\* C17: when LocalFileHeader::read returns a header, it has consumed exactly
\* 30 + n + m bytes (n the name's length, m the length of the extra-field
\* records), and the header written back in the layout's order, little
\* endian, is the bytes it consumed.
C17_HeaderRoundTrip ==
    [][(pc = "header" /\ (pc' = "extract" \/ result' = "Unimplemented")) =>
          /\ off' = Position(rdr)
          /\ Position(rdr') = Position(rdr) + HeaderLen(lfh')
          /\ Len(Serialize(lfh')) = HeaderLen(lfh')
          /\ Position(rdr') <= Len(file)
          /\ Serialize(lfh') = Slice(file, Position(rdr), Position(rdr'))]_vars

\* a header with the name a and one extra-field record was read
C17_Witness ==
    /\ pc = "extract" /\ off = 0
    /\ lfh.file_name = <<97>>
    /\ lfh.extra_field = <<[id |-> 1, data |-> <<7, 9>>]>>
    /\ Position(rdr) = 37

\* C18: while the extra-field records are read the count of bytes left in
\* the section never goes below zero: no header read ends in the underflow
\* of data_left.
C18_ExtraFieldCounter == result # "Overflow"

\* C19 (under SpecHeader): when the 4 bytes LocalFileHeader::read reads first
\* are not 0x04034b50 it returns InvalidLocalHeader and leaves the reader
\* where the read of those 4 bytes left it.
C19_BadSignatureRefused ==
    [][pc' = "parsed" =>
          LET s == read4(rdr, FALSE)
          IN  (result' # "IO" /\ s.val # LOCALHEADERFILESIG) =>
                  /\ result' = "InvalidLocalHeader"
                  /\ rdr' = s.r
                  /\ lfh' = NoHeader /\ allocs' = <<>>]_vars

\* a header was read across the block boundary where the file holds the
\* signature with its last byte changed
C19_Witness ==
    /\ pc = "parsed" /\ result = "InvalidLocalHeader"
    /\ off = BUFBLOCKSIZE - 2
    /\ off + 4 <= Len(file)
    /\ Slice(file, off, off + 4) = <<80, 75, 3, 5>>
    /\ rdr.block_idx = 1 /\ rdr.cursor = 2

\* the data descriptor held by the 12 bytes of the archive at offset o
DescriptorAt(o) ==
    [crc32 |-> LittleEndian(Slice(file, o, o + 4)),
     compressed_size |-> LittleEndian(Slice(file, o + 4, o + 8)),
     uncompressed_size |-> LittleEndian(Slice(file, o + 8, o + 12))]

\* C20: when expand reads the data descriptor of an entry whose 12 descriptor
\* bytes are in the archive, the reader stands on the first byte after the
\* entry's payload, the 12 bytes read are the ones that follow the payload,
\* and they are attached to the header as crc32, compressed_size,
\* uncompressed_size in that order.
C20_DescriptorFollowsPayload ==
    [][(pc = "dd" /\ have_data_descriptor(lfh) /\ pc' = "scan"
          /\ PayloadEnd + 12 <= Len(file)) =>
            /\ Position(rdr) = PayloadEnd
            /\ Position(rdr') = PayloadEnd + 12
            /\ lfh' = [lfh EXCEPT !.data_descriptor = <<DescriptorAt(PayloadEnd)>>]]_vars

(***************************************************************************)
(* Claims about the kinds of entries, checked under SpecExpand             *)
(***************************************************************************)
\* C21: a deflate header with compressed_size 0 and a nonzero
\* uncompressed_size is refused: once expand has dealt with the entry it has
\* returned an error.
C21_EmptyDeflateRefused ==
    (lfh.compression_method = 8 /\ lfh.compressed_size = 0
       /\ lfh.uncompressed_size > 0 /\ pc # "extract") =>
        (pc = "done" /\ result \notin {"none", "Ok"})

\* the header h describes a directory: both sizes 0, the name ends in "/"
DirectoryEntry(h) ==
    /\ h.compressed_size = 0 /\ h.uncompressed_size = 0
    /\ Len(h.file_name) > 0 /\ h.file_name[Len(h.file_name)] = SLASH

\* the archive of one directory entry and the central directory's signature
DirArchive == EntryBytes(Dir) \o LE32(CENTRAL_DIR_FILE_HEADER)

C23_MarkerMeansLastExpandOk ==
    (output.op = "has_expanded" /\ output.err = "Ok" /\ output.val) =>
        (last.path = epub.epub_filepath /\ last.err = "Ok")

\* C24: after expand returned Ok has_expanded returns true, whatever the
\* destination held before; has_expanded returns false when the marker is
\* absent or its first line is not the archive path
C24_ExpandedAfterOk ==
    /\ (output.op = "expand" /\ output.err = "Ok") =>
           has_expanded(epub, marker, FALSE) = [err |-> "Ok", val |-> TRUE]
    /\ (output.op = "has_expanded" /\ output.err = "Ok"
          /\ (~marker.present \/ ~first_line_is(read_lines(marker.bytes), epub.epub_filepath))) =>
           output.val = FALSE

\* the marker of the destination names the archive of the EPubFile
Matching == marker.present /\ first_line_is(read_lines(marker.bytes), epub.epub_filepath)

\* C25: read_container, get_package and get_toc on an EPubFile that holds no
\* container, with no matching marker in the destination, return
\* EPubFileNotExpanded (the IO error when the marker is there and reading it
\* fails) and leave container, package and toc unset
C25_NotExpandedRefused ==
    [][(output'.op \in {"read_container", "get_package", "get_toc"}
          /\ ~epub.container /\ ~Matching) =>
            /\ output'.err \in {"EPubFileNotExpanded", "IO"}
            /\ (output'.err = "IO" => marker.present)
            /\ epub' = epub
            /\ ~epub'.container /\ ~epub'.package /\ ~epub'.toc]_vars

C25_Witness ==
    /\ output.op = "get_toc" /\ output.err = "EPubFileNotExpanded"
    /\ marker.present /\ marker.bytes # <<>> /\ ~Matching
    /\ ~epub.container /\ ~epub.package /\ ~epub.toc


(***************************************************************************)
(* Claims about get_partition, checked under SpecMbr                       *)
(***************************************************************************)
\* the sector ends with 55 AA
GoodFooter == input.sector[FOOTER_START + 1] = 85 /\ input.sector[FOOTER_START + 2] = 170

\* the byte of the sector at offset o of the table entry of the volume asked
EntryByte(o) == input.sector[PARTITION1_START + 16 * input.volume_idx + o + 1]

\* C26: for a sector ending with 55 AA and an index 0..3 whose entry has
\* status 0x00 or 0x80, get_partition returns the entry at 446 + 16 * index:
\* the type is its byte 4, lba_start the little-endian u32 at its byte 8,
\* num_blocks the little-endian u32 at its byte 12
C26_EntryReturned ==
    (output.op = "get_partition" /\ output.err # "IO" /\ GoodFooter
       /\ input.volume_idx \in 0..3 /\ EntryByte(0) \in {0, 128}) =>
        /\ output.err = "Ok"
        /\ output.val.part_type = EntryByte(4)
        /\ output.val.lba_start =
               EntryByte(8) + 256 * EntryByte(9) + 65536 * EntryByte(10)
                   + 16777216 * EntryByte(11)
        /\ output.val.num_blocks =
               EntryByte(12) + 256 * EntryByte(13) + 65536 * EntryByte(14)
                   + 16777216 * EntryByte(15)

C26_Witness ==
    /\ output.op = "get_partition" /\ output.err = "Ok"
    /\ input.volume_idx = 3 /\ input.sector[PARTITION1_START + 48 + 1] = 128
    /\ output.val = [part_type |-> 15, lba_start |-> 2051, num_blocks |-> 17825795]

\* C27: with a bad footer get_partition returns FormatError for every index;
\* with a good footer and an index of 4 or more NoSuchVolume; with a good
\* footer, an index 0..3 and a status other than 0x00 and 0x80 FormatError
C27_ErrorOrder ==
    (output.op = "get_partition" /\ output.err # "IO") =>
        /\ ~GoodFooter => output.err = "FormatError"
        /\ (GoodFooter /\ input.volume_idx >= 4) => output.err = "NoSuchVolume"
        /\ (GoodFooter /\ input.volume_idx \in 0..3 /\ EntryByte(0) \notin {0, 128}) =>
               output.err = "FormatError"

C27_Witness ==
    /\ output.op = "get_partition" /\ output.err = "FormatError"
    /\ GoodFooter /\ input.volume_idx = 2 /\ input.sector[PARTITION1_START + 32 + 1] = 1
    /\ input.sector[PARTITION1_START + 1] = 0


(***************************************************************************)
(* Claims about the values built from start tags, checked under SpecXml    *)
(***************************************************************************)
\* tag carries the attribute name, in no namespace
Carries(tag, name) ==
    \E k \in 1..Len(tag.attributes) :
        tag.attributes[k].name = name /\ tag.attributes[k].ns = "None"

\* the value of that attribute
ValueOf(tag, name) ==
    LET k == CHOOSE k \in 1..Len(tag.attributes) :
                 tag.attributes[k].name = name /\ tag.attributes[k].ns = "None"
    IN  tag.attributes[k].value

\* C28: Manifest::add_tag with a tag carrying id, href and media-type, and
\* Spine::add_tag with a tag other than spine carrying idref, append exactly
\* one element, built from those attributes; they panic, adding nothing,
\* when a required attribute is missing
C28_OneElementPerTag ==
    [][/\ output'.op = "Manifest::add_tag" =>
            IF Carries(input', "id") /\ Carries(input', "href") /\ Carries(input', "media-type")
            THEN /\ output'.err = "Ok"
                 /\ doc'.items = Append(doc.items,
                        [id |-> ValueOf(input', "id"), href |-> ValueOf(input', "href"),
                         media_type |-> ValueOf(input', "media-type")])
                 /\ doc'.itemrefs = doc.itemrefs
            ELSE output'.err = "panic" /\ doc' = doc
       /\ (output'.op = "Spine::add_tag" /\ input'.name # "spine") =>
            IF Carries(input', "idref")
            THEN /\ output'.err = "Ok"
                 /\ doc'.itemrefs = Append(doc.itemrefs, [idref |-> ValueOf(input', "idref")])
                 /\ doc'.items = doc.items /\ doc'.toc = doc.toc
            ELSE output'.err = "panic" /\ doc' = doc]_vars

C28_Witness ==
    /\ output.op = "Spine::add_tag" /\ output.err = "Ok" /\ input.name = "itemref"
    /\ doc.toc # <<>>
    /\ doc.itemrefs = <<[idref |-> <<105>>], [idref |-> <<106>>]>>

\* C29: NavPoint::new returns a nav point with the id, the playOrder as a
\* number, an empty label and an empty content when the tag carries id and
\* playOrder, and InvalidXml when one is missing; add_label appends the
\* text to the label; add_content appends src to the content, and returns
\* InvalidXml, leaving the content as it was, when src is missing
C29_NavPointBuilt ==
    [][/\ output'.op = "NavPoint::new" =>
            IF Carries(input', "id") /\ Carries(input', "playOrder")
            THEN /\ output'.err = "Ok"
                 /\ Len(doc'.nav) = 1
                 /\ doc'.nav[1].id = ValueOf(input', "id")
                 /\ doc'.nav[1].play_order \in Nat
                 /\ doc'.nav[1].label = <<>> /\ doc'.nav[1].content = <<>>
            ELSE output'.err = "InvalidXml" /\ doc' = doc
       /\ output'.op = "NavPoint::add_label" =>
            doc'.nav = <<[doc.nav[1] EXCEPT !.label = doc.nav[1].label \o input']>>
       /\ output'.op = "NavPoint::add_content" =>
            IF Carries(input', "src")
            THEN /\ output'.err = "Ok"
                 /\ doc'.nav = <<[doc.nav[1] EXCEPT
                                    !.content = doc.nav[1].content \o ValueOf(input', "src")]>>
            ELSE output'.err = "InvalidXml" /\ doc' = doc]_vars


(***************************************************************************)
(* Claims about the path functions, checked under SpecPath                 *)
(***************************************************************************)
\* the runs of bytes of path between the "/", empty runs included
RECURSIVE Pieces(_)
Pieces(path) ==
    IF \A k \in 1..Len(path) : path[k] # SLASH THEN <<path>>
    ELSE LET k == CHOOSE k \in 1..Len(path) :
                      path[k] = SLASH /\ \A m \in 1..(k - 1) : path[m] # SLASH
         IN  <<SubSeq(path, 1, k - 1)>> \o Pieces(SubSeq(path, k + 1, Len(path)))

\* the components of path: its pieces, without the empty piece before a
\* leading "/" and the empty piece after a trailing "/"
Components(path) ==
    LET all     == Pieces(path)
        leading == IF Len(path) > 0 /\ path[1] = SLASH THEN Tail(all) ELSE all
    IN  IF Len(leading) > 0 /\ leading[Len(leading)] = <<>>
        THEN SubSeq(leading, 1, Len(leading) - 1) ELSE leading

\* name split at its first ".": what is before it, and the rest with the "."
SplitAtDot(name) ==
    IF \A k \in 1..Len(name) : name[k] # DOT THEN <<name, <<>>>>
    ELSE LET k == CHOOSE k \in 1..Len(name) :
                      name[k] = DOT /\ \A m \in 1..(k - 1) : name[m] # DOT
         IN  <<SubSeq(name, 1, k - 1), SubSeq(name, k, Len(name))>>

\* C30: split_path returns the components of the path, in order, with no
\* empty component for a leading or a trailing "/"; basename_and_ext returns
\* the last component split at its first ".", the extension keeping the dot
\* and being empty when there is none
C30_ComponentsAndExtension ==
    /\ output.op = "split_path" =>
           (output.err = "Ok" /\ output.val = Components(input))
    /\ (output.op = "basename_and_ext" /\ Components(input) # <<>>) =>
           /\ output.err = "Ok"
           /\ output.val = SplitAtDot(Components(input)[Len(Components(input))])


(***************************************************************************)
(* Claims about the primed reader, checked under Spec                      *)
(***************************************************************************)
\* the number of the file block the active buffer holds
ActiveBlock == (off - rdr.cursor) \div BUFBLOCKSIZE

\* C31: once the first block is loaded, every consuming read returns the
\* file's bytes at the offset consumed so far (read2 and read4 as
\* little-endian numbers), and the blocks of the file are fetched once each
\* and in order: what was fetched is the file up to the end of the active
\* block, and one block more after a peek4 that crossed the boundary
C31_ReadsFollowFile ==
    (primed /\ res.err = "ok") =>
        /\ res.op \in Reads =>
               /\ off <= Len(file)
               /\ res.val = Expected(res.op, res.n, off - res.n)
        /\ (off - rdr.cursor) % BUFBLOCKSIZE = 0
        /\ rdr.pos = Min(Len(file),
                         BUFBLOCKSIZE * (ActiveBlock + 1 + IF rdr.peek_rolled THEN 1 ELSE 0))

\* the same, for the reads that end inside the file
C31_InsideFile ==
    (primed /\ res.err = "ok" /\ off <= Len(file)) =>
        /\ res.op \in Reads => res.val = Expected(res.op, res.n, off - res.n)
        /\ (off - rdr.cursor) % BUFBLOCKSIZE = 0
        /\ rdr.pos = Min(Len(file),
                         BUFBLOCKSIZE * (ActiveBlock + 1 + IF rdr.peek_rolled THEN 1 ELSE 0))


\* the step fetched bytes of the file into a buffer
Refill == rdr'.pos # rdr.pos

\* the buffer that was active before the step is as it was
ActiveKept == rdr'.blocks[rdr.block_idx + 1] = rdr.blocks[rdr.block_idx + 1]

\* C32: after every call of a read method or peek4 the cursor is in 0..512
\* and the active index is 0 or 1, and a call that fetches bytes of the file
\* writes them to the buffer that is not the active one
C32_RefillSparesActive ==
    [][res'.op \in Reads \cup {"peek4"} =>
          /\ rdr'.cursor \in 0..BUFBLOCKSIZE
          /\ rdr'.block_idx \in {0, 1}
          /\ Refill => ActiveKept]_vars

\* the same, for the readers whose first block was loaded before the call
C32_Primed ==
    [][(primed /\ res'.op \in Reads \cup {"peek4"}) =>
          /\ rdr'.cursor \in 0..BUFBLOCKSIZE
          /\ rdr'.block_idx \in {0, 1}
          /\ Refill => ActiveKept]_vars


(***************************************************************************)
(* Claims about IO errors, checked under SpecExpand                        *)
(***************************************************************************)
\* what the read methods and peek4 return in the reader's state when the
\* file read they may need fails
FailingReads ==
    <<read1(rdr, TRUE), read2(rdr, TRUE), read4(rdr, TRUE), peek4(rdr, TRUE),
      read(rdr, 1, TRUE), read(rdr, 3, TRUE), read(rdr, READMAX, TRUE)>>

\* the reader call of expand's next step, with a failing file read
FailingStep ==
    CASE pc = "scan"   -> peek4(rdr, TRUE)
      [] pc = "header" -> LocalFileHeader_read(rdr, TRUE)
      [] pc = "copy"   -> read_to_array(rdr, Min(bytes_to_go, COPYCHUNK), TRUE)
      [] pc = "dd" /\ have_data_descriptor(lfh) -> DataDescriptor_read(rdr, TRUE)
      [] OTHER         -> Ret(rdr, "ok", 0)

ElementStart(name, attributes) ==
    [kind |-> "ElementStart", name |-> name, attributes |-> attributes, text |-> <<>>]

ElementEnd(name) ==
    [kind |-> "ElementEnd", name |-> name, attributes |-> <<>>, text |-> <<>>]

Characters(s) == [kind |-> "Characters", name |-> "", attributes |-> <<>>, text |-> s]

\* Err(e) of the parser
ParseErr == [kind |-> "Err", name |-> "", attributes |-> <<>>, text |-> <<>>]

\* Event::Comment (PI and CDATA are handled alike)
Comment == [kind |-> "Comment", name |-> "", attributes |-> <<>>, text |-> <<>>]

\* Meta::new (src/src/package.rs)
Meta_new(tag, chars) ==
    LET prop    == get(tag, "property")
        name    == get(tag, "name")
        content == get(tag, "content")
    IN  IF prop.some THEN [err |-> "Ok", val |-> [name |-> prop.value, content |-> chars]]
        ELSE IF name.some /\ content.some
        THEN [err |-> "Ok", val |-> [name |-> name.value, content |-> content.value]]
        ELSE [err |-> "panic", val |-> <<>>]

\* the locals of Toc::read before the first event; nav_point is <<>> for None
Toc_new ==
    [kind |-> "Toc", stack |-> <<>>, chars |-> <<>>, in_head |-> FALSE,
     in_doctitle |-> FALSE, in_navmap |-> FALSE, in_navpoint |-> FALSE,
     nav_point |-> <<>>, doc_title |-> <<>>, nav_points |-> <<>>,
     meta_entries |-> <<>>]

\* Event::ElementStart(tag)
Toc_start(t, tag) ==
    LET makes == tag.name # "head" /\ tag.name # "navMap" /\ tag.name = "navPoint"
                 /\ t.in_navmap
        np    == NavPoint_new(tag)
    IN  IF makes /\ np.err # "Ok" THEN [toc |-> t, err |-> np.err]
        ELSE [toc |-> [t EXCEPT
                         !.in_head = (tag.name = "head") \/ @,
                         !.in_navmap = (tag.name = "navMap") \/ @,
                         !.in_navpoint = makes \/ @,
                         !.nav_point = IF makes THEN <<np.val>> ELSE @,
                         !.in_doctitle = (tag.name = "docTitle" /\ ~makes) \/ @,
                         !.stack = Append(@, tag),
                         !.chars = <<>>],
              err |-> "Ok"]

\* Event::ElementEnd(tag)
Toc_end(t, tag) ==
    IF t.stack = <<>> THEN [toc |-> t, err |-> "Ok"]
    ELSE
    LET start_tag == t.stack[Len(t.stack)]
        popped    == [t EXCEPT !.stack = SubSeq(@, 1, Len(@) - 1)]
        ok(x)     == [toc |-> x, err |-> "Ok"]
        handled   ==
            CASE tag.name = "head" -> ok([popped EXCEPT !.in_head = FALSE])
              [] tag.name = "navMap" -> ok([popped EXCEPT !.in_navmap = FALSE])
              [] tag.name = "navPoint" ->
                    ok([popped EXCEPT !.in_navpoint = FALSE,
                                      !.nav_points = @ \o popped.nav_point,
                                      !.nav_point = <<>>])
              [] tag.name = "docTitle" -> ok([popped EXCEPT !.in_doctitle = FALSE])
              [] tag.name = "text" ->
                    IF popped.in_navpoint
                    THEN IF popped.nav_point # <<>>
                         THEN ok([popped EXCEPT
                                    !.nav_point = <<add_label(@[1], popped.chars)>>])
                         ELSE ok(popped)
                    ELSE IF popped.in_doctitle
                    THEN ok([popped EXCEPT !.doc_title = @ \o popped.chars])
                    ELSE ok(popped)
              [] tag.name = "content" /\ popped.in_navpoint ->
                    IF popped.nav_point # <<>>
                    THEN LET c == add_content(popped.nav_point[1], start_tag)
                         IN  IF c.err # "Ok" THEN [toc |-> popped, err |-> c.err]
                             ELSE ok([popped EXCEPT !.nav_point = <<c.nav>>])
                    ELSE ok(popped)
              [] tag.name = "meta" /\ popped.in_head ->
                    LET m == Meta_new(start_tag, popped.chars)
                    IN  IF m.err # "Ok" THEN [toc |-> popped, err |-> m.err]
                        ELSE ok([popped EXCEPT !.meta_entries = Append(@, m.val)])
              [] OTHER -> ok(popped)
    IN  IF handled.err # "Ok" THEN handled
        ELSE IF start_tag.name # tag.name THEN [toc |-> handled.toc, err |-> "panic"]
        ELSE handled

CR == 13

\* the body of the loop over the events
Toc_event(t, e) ==
    CASE e.kind = "ElementStart" -> Toc_start(t, e)
      [] e.kind = "ElementEnd" -> Toc_end(t, e)
      [] e.kind = "Characters" ->
            [toc |-> IF e.text # <<LF>> /\ e.text # <<CR, LF>>
                     THEN [t EXCEPT !.chars = @ \o e.text] ELSE t,
             err |-> "Ok"]
      [] e.kind = "Err" -> [toc |-> t, err |-> "XmlParseErr"]
      [] OTHER -> [toc |-> t, err |-> "Ok"]

\* the documents: elements as the runs of events the parser gives for them
Element(name, attributes, children) ==
    <<ElementStart(name, attributes)>> \o children \o <<ElementEnd(name)>>

Src(v) == <<Attribute("src", "None", v)>>

\* a navPoint element with id i, label l and content c, and after them the
\* elements in inner
NavPointElement(i, l, c, inner) ==
    Element("navPoint",
            <<Attribute("id", "None", i), Attribute("playOrder", "None", <<49>>)>>,
            Element("navLabel", <<>>, Element("text", <<>>, <<Characters(l)>>))
            \o Element("content", Src(c), <<>>) \o inner)

Leaves == {NavPointElement(<<i>>, <<l>>, <<c>>, <<>>) : i \in {97, 98}, l \in {65, 66}, c \in {120}}

Title == Element("docTitle", <<>>, Element("text", <<>>, <<Characters(<<84>>)>>))

HeadElement(attributes) == Element("head", <<>>, Element("meta", attributes, <<Characters(<<77>>)>>))

TocDocuments ==
    \* navPoints side by side, with a head and a title before them
    {HeadElement(<<Attribute("property", "None", <<112>>)>>) \o Title
        \o Element("navMap", <<>>, a \o <<Characters(<<LF>>), Comment>> \o b) :
            a \in Leaves, b \in Leaves}
    \* a navPoint inside a navPoint
    \cup {Element("navMap", <<>>, NavPointElement(<<111>>, <<79>>, <<121>>, a)) : a \in Leaves}
    \* a navPoint before navMap, and one in it
    \cup {a \o Element("navMap", <<>>, b) : a \in Leaves, b \in Leaves}
    \* a navPoint without id, a content without src, a meta without
    \* attributes, a text outside a navPoint, an end tag with another name,
    \* an end tag and nothing open, an error of the parser
    \cup {Element("navMap", <<>>, Element("navPoint", <<>>, <<>>)),
          Element("navMap", <<>>,
                  Element("navPoint", <<Attribute("id", "None", <<97>>),
                                        Attribute("playOrder", "None", <<120>>)>>, <<>>)),
          Element("navMap", <<>>,
                  Element("navPoint", <<Attribute("id", "None", <<97>>),
                                        Attribute("playOrder", "None", <<49>>)>>,
                          Element("content", <<>>, <<>>))),
          HeadElement(<<>>),
          HeadElement(<<Attribute("name", "None", <<110>>), Attribute("content", "None", <<99>>)>>),
          Element("navMap", <<>>, Element("text", <<>>, <<Characters(<<CR, LF>>)>>)),
          <<ElementStart("navMap", <<>>), ElementEnd("ncx")>>,
          <<ElementEnd("ncx"), ElementStart("navMap", <<>>)>>,
          <<ElementStart("navMap", <<>>), ParseErr>>}

InitToc ==
    /\ InitNoArchive
    /\ epub = NoEPubFile /\ marker = NoMarker /\ last = NoExpand
    /\ doc = Toc_new
    /\ input \in [events : TocDocuments, k : {0}]
    /\ output = NoOutput

\* open_file, BufReader::new and read_lines
TocOpen == \E fail \in BOOLEAN :
    /\ output.op = "none" /\ input.k = 0
    /\ IF fail THEN output' = Out("Toc::read", "IO", <<>>) /\ UNCHANGED input
       ELSE input' = [input EXCEPT !.k = 1] /\ UNCHANGED output
    /\ UNCHANGED <<epub, marker, last, doc, ovars>>

\* one round of the loop over the events
TocEvent ==
    /\ output.op = "none" /\ input.k \in 1..Len(input.events)
    /\ LET x == Toc_event(doc, input.events[input.k])
       IN  /\ doc' = x.toc
           /\ output' = IF x.err # "Ok" THEN Out("Toc::read", x.err, <<>>) ELSE output
    /\ input' = [input EXCEPT !.k = @ + 1]
    /\ UNCHANGED <<epub, marker, last, ovars>>

\* Ok(Toc { .. }) after the last event
TocReturn ==
    /\ output.op = "none" /\ input.k = Len(input.events) + 1
    /\ output' = Out("Toc::read", "Ok", doc.nav_points)
    /\ UNCHANGED <<epub, marker, last, doc, input, ovars>>

NextToc ==
    \/ TocOpen
    \/ TocEvent
    \/ TocReturn

SpecToc == InitToc /\ [][NextToc]_vars

(***************************************************************************)
(* The bump pointer allocator of src/ensure_no_std/src/main.rs.  doc is    *)
(* the allocator, input the blocks it has given out and the number of      *)
(* alloc calls, output the last call.  For a Layout (align a power of two, *)
(* size rounded up to align at most isize::MAX) and this heap no sum of    *)
(* alloc reaches 2^32, so the sums are taken as they are.                  *)
(***************************************************************************)
\* the most alloc calls of a behaviour
MaxAllocs == 3

\* static HEAP: head is 0x2000_0100 and end is 0x2000_0200
HEAP == [kind |-> "BumpPointerAlloc", head |-> 536871168, end |-> 536871424]

\* ptr::null_mut()
NULL == 0

Layout(size, align) == [size |-> size, align |-> align]

\* the layouts of the calls: sizes from nothing to more than the heap,
\* alignments from 1 to twice the heap's length
Layouts == {Layout(sz, al) : sz \in {0, 1, 3, 100, 256, 257}, al \in {1, 4, 16, 512}}

\* alloc with the head taken for the start, whatever the alignment
alloc_unaligned(a, layout) ==
    LET start == a.head
    IN  IF start + layout.size > a.end
        THEN [alloc |-> a, ptr |-> NULL]
        ELSE [alloc |-> [a EXCEPT !.head = start + layout.size], ptr |-> start]

\* BumpPointerAlloc::alloc; (x + align - 1) & !(align - 1) for a power of two
alloc(a, layout) ==
    LET start == ((a.head + layout.align - 1) \div layout.align) * layout.align
    IN  IF start + layout.size > a.end
        THEN [alloc |-> a, ptr |-> NULL]
        ELSE [alloc |-> [a EXCEPT !.head = start + layout.size], ptr |-> start]

\* BumpPointerAlloc::dealloc
dealloc(a, ptr, layout) == a

InitAlloc ==
    /\ InitNoArchive
    /\ epub = NoEPubFile /\ marker = NoMarker /\ last = NoExpand
    /\ doc = HEAP
    /\ input = [blocks |-> <<>>, calls |-> 0]
    /\ output = NoOutput

Alloc == \E layout \in Layouts :
    /\ input.calls < MaxAllocs
    /\ LET x == alloc(doc, layout)
       IN  /\ doc' = x.alloc
           /\ input' = [blocks |-> IF x.ptr = NULL THEN input.blocks
                                   ELSE Append(input.blocks,
                                               [ptr |-> x.ptr, layout |-> layout]),
                        calls |-> input.calls + 1]
           /\ output' = Out("alloc", "Ok", [ptr |-> x.ptr, layout |-> layout])
    /\ UNCHANGED <<epub, marker, last, ovars>>

Dealloc == \E k \in 1..Len(input.blocks) :
    /\ doc' = dealloc(doc, input.blocks[k].ptr, input.blocks[k].layout)
    /\ output' = Out("dealloc", "Ok", input.blocks[k])
    /\ UNCHANGED <<epub, marker, last, input, ovars>>

NextAlloc ==
    \/ Alloc
    \/ Dealloc

SpecAlloc == InitAlloc /\ [][NextAlloc]_vars

(***************************************************************************)
(* Claims about termination                                                *)
(***************************************************************************)
\* inflate has returned
InflateReturned == pc \in {"entry_done", "done"}

\* C34: inflate always returns, whatever the decompressor and the output
\* file do, and it returns Ok exactly when the budget is 0, after
\* ceil(compressed_size / 32768) chunks; checked under SpecInflate
C34_InflateTerminates ==
    /\ <>InflateReturned
    /\ [](pc = "entry_done" =>
            /\ bytes_to_go = 0
            /\ output.val = (lfh.compressed_size + CHUNK - 1) \div CHUNK)

\* the same for the decompressor that consumes input and the file that
\* accepts bytes
C34_WithProgress ==
    (input.decompressor = "consuming" /\ input.sink = "accepting") => C34_InflateTerminates


\* C35: expand returns on every archive: Ok when it meets the central
\* directory's signature, an error otherwise, also when the archive ends
\* without one; checked under SpecExpandAll
C35_ExpandTerminates ==
    /\ <>(pc = "done")
    /\ [](pc = "done" /\ result = "Ok" => sig = CENTRAL_DIR_FILE_HEADER)

\* the same for the archives that have bytes other than entries in them
C35_OtherArchives == file # EntriesOnly => C35_ExpandTerminates


(***************************************************************************)
(* Claims about the entries expand parses                                  *)
(***************************************************************************)
\* the step made one file or directory for the entry in lfh
CreatedForEntry ==
    /\ Len(fsops') = Len(fsops) + 1
    /\ fsops'[Len(fsops')].op \in {"create_file", "create_dir"}
    /\ fsops'[Len(fsops')].path = ThisFile

\* C36: for every header expand has parsed, the step after it creates one
\* file or directory for the entry or expand returns an error
C36_NoEntrySkipped ==
    [][pc = "extract" => (CreatedForEntry \/ (pc' = "done" /\ result' # "Ok"))]_vars


(***************************************************************************)
(* Claims about the cached metadata of an EPubFile, checked under SpecEPub *)
(***************************************************************************)
MetadataCalls == {"read_container", "get_package", "get_toc"}

\* C37: when read_container returns Ok the package and the toc are set, and
\* get_package and get_toc never panic
C37_OkMeansPopulated ==
    output.op \in MetadataCalls =>
        /\ output.err # "panic"
        /\ output.err = "Ok" => (epub.package /\ epub.toc)

\* C38: expand leaves no cached package or toc, and a metadata call that
\* follows an expand that returned an error, with no matching marker in the
\* destination, is refused and reads nothing
C38_FailedExpandRefused ==
    [][/\ output'.op = "expand" => (~epub'.package /\ ~epub'.toc)
       /\ (output.op = "expand" /\ output.err # "Ok"
             /\ output'.op \in MetadataCalls /\ ~Matching) =>
               /\ output'.err \in {"EPubFileNotExpanded", "IO"}
               /\ (output'.err = "IO" => marker.present)
               /\ ~epub'.container /\ ~epub'.package /\ ~epub'.toc]_vars


(***************************************************************************)
(* Claims about Toc::read, checked under SpecToc                           *)
(***************************************************************************)
\* the index of the innermost open element that is a navPoint of the map,
\* 0 when there is none
Innermost(els) ==
    LET hits == {j \in 1..Len(els) : els[j].np # <<>>}
    IN  IF hits = {} THEN 0 ELSE CHOOSE j \in hits : \A h \in hits : h <= j

\* the navPoint elements of a document that lie inside navMap, in the order
\* of their end tags, each with the text of the text elements and the src
\* of the content elements that have it as their nearest navPoint
RECURSIVE Walk(_, _, _, _)
Walk(events, k, els, out) ==
    IF k > Len(events) THEN out
    ELSE LET e == events[k]
         IN  CASE e.kind = "ElementStart" ->
                    LET inMap == \E j \in 1..Len(els) : els[j].tag.name = "navMap"
                        np    == IF e.name = "navPoint" /\ inMap
                                 THEN <<NavPoint_new(e).val>> ELSE <<>>
                    IN  Walk(events, k + 1,
                             Append(els, [tag |-> e, np |-> np, text |-> <<>>]), out)
               [] e.kind = "Characters" /\ els # <<>> ->
                    Walk(events, k + 1,
                         [els EXCEPT ![Len(els)].text = @ \o e.text], out)
               [] e.kind = "ElementEnd" /\ els # <<>> ->
                    LET f    == els[Len(els)]
                        rest == SubSeq(els, 1, Len(els) - 1)
                        j    == Innermost(rest)
                    IN  IF f.np # <<>> THEN Walk(events, k + 1, rest, Append(out, f.np[1]))
                        ELSE IF f.tag.name = "text" /\ j > 0
                        THEN Walk(events, k + 1,
                                  [rest EXCEPT ![j].np[1].label = @ \o f.text], out)
                        ELSE IF f.tag.name = "content" /\ j > 0
                        THEN Walk(events, k + 1,
                                  [rest EXCEPT ![j].np[1].content =
                                                   @ \o get(f.tag, "src").value], out)
                        ELSE Walk(events, k + 1, rest, out)
               [] OTHER -> Walk(events, k + 1, els, out)

NavPointsOf(events) == Walk(events, 1, <<>>, <<>>)

ReadOk == output.op = "Toc::read" /\ output.err = "Ok"

\* C39: the nav points Toc::read returns are the navPoint elements inside
\* navMap, one each, in the order of their end tags, each with its own label
\* and content
C39_OneNavPointPerElement == ReadOk => output.val = NavPointsOf(input.events)

\* a navPoint element starts while another is open
Nested(events) ==
    \E i, j \in 1..Len(events) :
        /\ i < j
        /\ events[i].kind = "ElementStart" /\ events[i].name = "navPoint"
        /\ events[j].kind = "ElementStart" /\ events[j].name = "navPoint"
        /\ \A m \in (i + 1)..(j - 1) :
              ~(events[m].kind = "ElementEnd" /\ events[m].name = "navPoint")

\* the same for the documents in which no navPoint lies in another
C39_SideBySide == (ReadOk /\ ~Nested(input.events)) => output.val = NavPointsOf(input.events)


(***************************************************************************)
(* Claims about the bump pointer allocator, checked under SpecAlloc        *)
(***************************************************************************)
\* the least multiple of a that is not below h
AlignedStart(h, a) == h + ((a - (h % a)) % a)

\* C40: head never decreases and dealloc leaves it as it is; alloc returns
\* null, with head unchanged, exactly when the aligned start plus the size
\* exceeds end; a block that is not null starts at a multiple of its
\* alignment, lies in [initial head, end] and after every earlier block
C40_BumpAllocator ==
    [][output'.op \in {"alloc", "dealloc"} =>
        /\ doc'.head >= doc.head /\ doc'.end = doc.end
        /\ output'.op = "dealloc" => doc'.head = doc.head
        /\ output'.op = "alloc" =>
            LET b == output'.val
            IN  /\ b.ptr = NULL <=>
                      AlignedStart(doc.head, b.layout.align) + b.layout.size > doc.end
                /\ b.ptr = NULL => doc'.head = doc.head
                /\ b.ptr # NULL =>
                      /\ b.ptr % b.layout.align = 0
                      /\ b.ptr >= HEAP.head /\ b.ptr + b.layout.size <= HEAP.end
                      /\ \A k \in 1..Len(input.blocks) :
                            input.blocks[k].ptr + input.blocks[k].layout.size <= b.ptr]_vars

\* the third call gives out the second block, behind padding; one of the
\* calls before it returned null
C40_Witness ==
    /\ output.op = "alloc" /\ output.val.ptr # NULL
    /\ input.calls = MaxAllocs /\ Len(input.blocks) = 2
    /\ output.val.ptr > input.blocks[1].ptr + input.blocks[1].layout.size
    /\ output.val.layout.size > 0


====
